---- MODULE Spec2Model ----
(***************************************************************************)
(* A model of the agent layer of remote-agent-memory: the decision         *)
(* orchestrator (analyze_context, execute_invocations), the task           *)
(* decomposer, the relevance scorer, the context builder and the           *)
(* integration layer in front of the storage backend.                      *)
(*                                                                         *)
(* Text is a sequence of one-character strings, so that lower-casing and   *)
(* regular-expression search are computed, not assumed.  Scores are        *)
(* integers in millionths (1000000 is 1.0); weights are in hundredths.     *)
(*                                                                         *)
(* Each component has a specification of its own; the variables of the     *)
(* other components are parked at a fixed value there.                     *)
(***************************************************************************)
EXTENDS Integers, Sequences, FiniteSets, TLC

VARIABLES
    \* AgentOrchestrator state (orchestrator.py:74-77)
    active_agents,      \* self.active_agents: set of agent types
    agent_history,      \* self.agent_history: sequence of AgentResult
    \* one frame per execute_invocations call in flight
    pc,                 \* position of each call: idle, loop, await, done
    batch,              \* the invocations argument of each call
    idx,                \* index of the invocation the for loop is at
    results,            \* the local results list of each call
    handled,            \* what the loop did with each invocation so far
    \* one call of analyze_context
    an_content,         \* the content argument
    an_invocations,     \* the list it returns
    an_done,            \* whether it has returned
    \* one call of decompose_task
    td_task,            \* the task_description argument
    td_result,          \* the TaskDecomposition, or the exception raised
    td_done,
    td_again,           \* what a second call on the same decomposer gives
    td_again_done,
    \* one call of score_relevance
    sc_candidate,       \* the MemoryCandidate
    sc_context,         \* the ScoringContext
    sc_weights,         \* the ScoringWeights
    sc_result,          \* the RelevanceScore, or the exception raised
    sc_done,
    \* one call of assemble_context
    cb_queries,         \* decomposition.context_queries (their context types)
    cb_results,         \* memory_results, in insertion order
    cb_context,         \* the AssembledContext
    cb_done,
    \* the integration layer (integration.py) and its storage backend
    ig_integration,     \* the module-level _agent_integration
    ig_pc,              \* idle, or the storage call awaited
    ig_frame,           \* the locals of the call in flight
    ig_last             \* the last entry-point call completed, with its outcome

orchVars == <<active_agents, agent_history, pc, batch, idx, results, handled>>
anVars == <<an_content, an_invocations, an_done>>
tdVars == <<td_task, td_result, td_done, td_again, td_again_done>>
scVars == <<sc_candidate, sc_context, sc_weights, sc_result, sc_done>>
cbVars == <<cb_queries, cb_results, cb_context, cb_done>>
igVars == <<ig_integration, ig_pc, ig_frame, ig_last>>
vars == <<orchVars, anVars, tdVars, scVars, cbVars, igVars>>

(* What an action of one component leaves alone *)
notOrch == <<anVars, tdVars, scVars, cbVars, igVars>>
notAn == <<orchVars, tdVars, scVars, cbVars, igVars>>
notTd == <<orchVars, anVars, scVars, cbVars, igVars>>
notSc == <<orchVars, anVars, tdVars, cbVars, igVars>>
notCb == <<orchVars, anVars, tdVars, scVars, igVars>>
notIg == <<orchVars, anVars, tdVars, scVars, cbVars>>

SeqsUpTo(S, n) == UNION {[1..k -> S] : k \in 0..n}

Range(s) == {s[i] : i \in 1..Len(s)}

----------------------------------------------------------------------------
(* Bounds of the orchestrator model *)

MaxBatch == 2

(* The calls of execute_invocations that may be in flight together *)
Callers == {"call_a", "call_b"}

(* AgentType, orchestrator.py:23-31; the batches draw from two of them:    *)
(* one whose prompt reads invocation.context and one of the else branch.   *)
AgentTypes ==
    {"memory-store", "memory-context", "memory-recall", "memory-consolidate",
     "memory-health", "test-context", "debug-context"}

PromptedTypes ==
    {"memory-store", "memory-context", "debug-context", "test-context",
     "memory-recall"}

BatchTypes == {"memory-store", "memory-health"}

(* AgentInvocation as a caller may build it: context is a dict or None.    *)
Invocations ==
    [agent_type : BatchTypes, context_is_dict : BOOLEAN]

Batches == SeqsUpTo(Invocations, MaxBatch)

NoneText == "None"
NoneHasNoGet == "'NoneType' object has no attribute 'get'"

(* _build_agent_prompt: the five prompted branches call                    *)
(* invocation.context.get, which raises AttributeError on a None context;  *)
(* the else branch only formats the context.                               *)
BuildAgentPromptRaises(inv) ==
    inv.agent_type \in PromptedTypes /\ ~inv.context_is_dict

(* _execute_single_agent: builds the prompt, then returns the canned       *)
(* success payload.                                                        *)
ExecuteSingleAgent(inv) ==
    IF BuildAgentPromptRaises(inv)
    THEN [raised |-> TRUE, error |-> NoneHasNoGet]
    ELSE [raised |-> FALSE, error |-> NoneText]

AgentResult(t, ok, msg) ==
    [agent_type |-> t, success |-> ok, error_message |-> msg]

CurInv(p) == batch[p][idx[p]]

OrchInit ==
    /\ active_agents = {}
    /\ agent_history = <<>>
    /\ pc = [p \in Callers |-> "idle"]
    /\ batch = [p \in Callers |-> <<>>]
    /\ idx = [p \in Callers |-> 1]
    /\ results = [p \in Callers |-> <<>>]
    /\ handled = [p \in Callers |-> <<>>]

(* A caller enters execute_invocations: results = [] and the loop starts.  *)
StartCall(p) ==
    /\ pc[p] = "idle"
    /\ \E b \in Batches : batch' = [batch EXCEPT ![p] = b]
    /\ pc' = [pc EXCEPT ![p] = "loop"]
    /\ idx' = [idx EXCEPT ![p] = 1]
    /\ results' = [results EXCEPT ![p] = <<>>]
    /\ handled' = [handled EXCEPT ![p] = <<>>]
    /\ UNCHANGED <<active_agents, agent_history, notOrch>>

(* A loop body without the finally clause: the mark is never cleared.      *)
FinallyKeeps(active, t) == active

(* What the finally clause does to the active set (line 281).              *)
FinallyDiscard(active, t) == active \ {t}

(* Lines 251-260: the guard and the mark, with no await between them.  On  *)
(* the skip path `continue` leaves the try block, so the finally clause    *)
(* runs before the next iteration.                                         *)
CheckAndMark(p) ==
    /\ pc[p] = "loop"
    /\ idx[p] <= Len(batch[p])
    /\ LET t == CurInv(p).agent_type IN
       IF t \in active_agents
       THEN /\ active_agents' = FinallyDiscard(active_agents, t)
            /\ idx' = [idx EXCEPT ![p] = @ + 1]
            /\ handled' = [handled EXCEPT ![p] = Append(@, "skipped")]
            /\ UNCHANGED <<pc, results, agent_history>>
       ELSE /\ active_agents' = active_agents \cup {t}
            /\ pc' = [pc EXCEPT ![p] = "await"]
            /\ UNCHANGED <<idx, handled, results, agent_history>>
    /\ UNCHANGED <<batch, notOrch>>

(* A loop body without the except clause: the exception ends the call.     *)
AfterRaisePropagates(p) == "raised"

(* Where the call is once an invocation has raised: the except clause of   *)
(* lines 271-279 has swallowed the exception, so the loop goes on.         *)
AfterRaise(p) == "loop"

(* Lines 263-281: the awaited execution comes back.  On success the result *)
(* goes to results and to the history; on an exception a failed result     *)
(* goes to results only; the finally clause runs in both cases.            *)
FinishExecution(p) ==
    /\ pc[p] = "await"
    /\ LET inv == CurInv(p)
           out == ExecuteSingleAgent(inv)
       IN  IF out.raised
           THEN /\ results' = [results EXCEPT ![p] =
                        Append(@, AgentResult(inv.agent_type, FALSE, out.error))]
                /\ handled' = [handled EXCEPT ![p] = Append(@, "raised")]
                /\ pc' = [pc EXCEPT ![p] = AfterRaise(p)]
                /\ UNCHANGED agent_history
           ELSE /\ results' = [results EXCEPT ![p] =
                        Append(@, AgentResult(inv.agent_type, TRUE, NoneText))]
                /\ agent_history' =
                        Append(agent_history, AgentResult(inv.agent_type, TRUE, NoneText))
                /\ handled' = [handled EXCEPT ![p] = Append(@, "executed")]
                /\ pc' = [pc EXCEPT ![p] = "loop"]
    /\ active_agents' = FinallyDiscard(active_agents, CurInv(p).agent_type)
    /\ idx' = [idx EXCEPT ![p] = @ + 1]
    /\ UNCHANGED <<batch, notOrch>>

(* Line 283: the loop is over, the call returns results.                   *)
ReturnResults(p) ==
    /\ pc[p] = "loop"
    /\ idx[p] > Len(batch[p])
    /\ pc' = [pc EXCEPT ![p] = "done"]
    /\ UNCHANGED <<active_agents, agent_history, batch, idx, results, handled, notOrch>>

OrchNext ==
    \E p \in Callers :
        \/ StartCall(p)
        \/ CheckAndMark(p)
        \/ FinishExecution(p)
        \/ ReturnResults(p)

----------------------------------------------------------------------------
(* Text: str.lower() and re.search over sequences of characters *)

UpperCase ==
    <<"A", "B", "C", "D", "E", "F", "G", "H", "I", "J", "K", "L", "M",
      "N", "O", "P", "Q", "R", "S", "T", "U", "V", "W", "X", "Y", "Z">>

LowerCase ==
    <<"a", "b", "c", "d", "e", "f", "g", "h", "i", "j", "k", "l", "m",
      "n", "o", "p", "q", "r", "s", "t", "u", "v", "w", "x", "y", "z">>

LowerChar(c) ==
    IF \E i \in 1..26 : UpperCase[i] = c
    THEN LowerCase[CHOOSE i \in 1..26 : UpperCase[i] = c]
    ELSE c

(* str.lower(), written out as a tuple *)
Lower(s) == SubSeq([i \in 1..Len(s) |-> LowerChar(s[i])], 1, Len(s))

(* `lit in s`, and re.search of a literal *)
Contains(s, lit) ==
    \E i \in 1..(Len(s) - Len(lit) + 1) : SubSeq(s, i, i + Len(lit) - 1) = lit

(* re.search(pattern, s, re.IGNORECASE) for a pattern that is an           *)
(* alternation of lower-case literals, given as the set of its             *)
(* alternatives: the flag makes the search that of the lower-cased text.   *)
(* An optional last character ("failed?") leaves the literal without it.   *)
SearchAlternation(alts, s) == \E lit \in alts : Contains(Lower(s), lit)

(* any(re.search(p, content, re.IGNORECASE) for p in indicators) *)
AnyIndicator(indicators, s) ==
    \E k \in 1..Len(indicators) : SearchAlternation(indicators[k], s)


(* _contains_decision_content: decision_indicators *)
DecisionIndicators ==
    <<
      {<<"d", "e", "c", "i", "d", "e", "d">>,
       <<"c", "h", "o", "s", "e", "n">>,
       <<"s", "e", "l", "e", "c", "t", "e", "d">>,
       <<"g", "o", "i", "n", "g", " ", "w", "i", "t", "h">>,
       <<"w", "i", "l", "l", " ", "u", "s", "e">>,
       <<"a", "p", "p", "r", "o", "a", "c", "h", " ", "i", "s">>},
      {<<"s", "o", "l", "u", "t", "i", "o", "n">>,
       <<"f", "i", "x">>,
       <<"r", "e", "s", "o", "l", "v", "e", "d">>,
       <<"i", "m", "p", "l", "e", "m", "e", "n", "t", "e", "d">>,
       <<"w", "o", "r", "k", "i", "n", "g">>},
      {<<"a", "r", "c", "h", "i", "t", "e", "c", "t", "u", "r", "e">>,
       <<"d", "e", "s", "i", "g", "n">>,
       <<"p", "a", "t", "t", "e", "r", "n">>,
       <<"s", "t", "r", "a", "t", "e", "g", "y">>},
      {<<"l", "e", "a", "r", "n", "e", "d">>,
       <<"d", "i", "s", "c", "o", "v", "e", "r", "e", "d">>,
       <<"f", "o", "u", "n", "d", " ", "t", "h", "a", "t">>,
       <<"r", "e", "a", "l", "i", "z", "e", "d">>},
      {<<"s", "u", "c", "c", "e", "s", "s", "f", "u", "l", "l", "y">>,
       <<"c", "o", "m", "p", "l", "e", "t", "e", "d">>,
       <<"f", "i", "n", "i", "s", "h", "e", "d">>,
       <<"d", "e", "p", "l", "o", "y", "e", "d">>},
      {<<"b", "e", "s", "t", " ", "p", "r", "a", "c", "t", "i", "c", "e">>,
       <<"r", "e", "c", "o", "m", "m", "e", "n", "d", "a", "t", "i", "o", "n">>,
       <<"s", "h", "o", "u", "l", "d">>},
      {<<"k", "e", "y", " ", "i", "n", "s", "i", "g", "h", "t">>,
       <<"i", "m", "p", "o", "r", "t", "a", "n", "t">>,
       <<"c", "r", "i", "t", "i", "c", "a", "l">>,
       <<"e", "s", "s", "e", "n", "t", "i", "a", "l">>}
    >>


(* _contains_error_content: error_indicators *)
ErrorIndicators ==
    <<
      {<<"e", "r", "r", "o", "r">>,
       <<"e", "x", "c", "e", "p", "t", "i", "o", "n">>,
       <<"f", "a", "i", "l", "e">>,
       <<"c", "r", "a", "s", "h">>,
       <<"b", "u", "g">>},
      {<<"n", "o", "t", " ", "w", "o", "r", "k", "i", "n", "g">>,
       <<"b", "r", "o", "k", "e", "n">>,
       <<"i", "s", "s", "u", "e">>,
       <<"p", "r", "o", "b", "l", "e", "m">>},
      {<<"d", "e", "b", "u", "g">>,
       <<"t", "r", "o", "u", "b", "l", "e", "s", "h", "o", "o", "t">>,
       <<"i", "n", "v", "e", "s", "t", "i", "g", "a", "t", "e">>},
      {<<"t", "i", "m", "e", "o", "u", "t">>,
       <<"c", "o", "n", "n", "e", "c", "t", "i", "o", "n">>,
       <<"m", "e", "m", "o", "r", "y", " ", "l", "e", "a", "k">>},
      {<<"s", "t", "a", "c", "k", "t", "r", "a", "c", "e">>,
       <<"t", "r", "a", "c", "e", "b", "a", "c", "k">>,
       <<"l", "o", "g", " ", "s", "h", "o", "w", "s">>}
    >>


(* _contains_task_content: task_indicators *)
TaskIndicators ==
    <<
      {<<"i", "m", "p", "l", "e", "m", "e", "n", "t">>,
       <<"c", "r", "e", "a", "t", "e">>,
       <<"b", "u", "i", "l", "d">>,
       <<"d", "e", "v", "e", "l", "o", "p">>,
       <<"a", "d", "d">>},
      {<<"f", "e", "a", "t", "u", "r", "e">>,
       <<"f", "u", "n", "c", "t", "i", "o", "n">>,
       <<"c", "o", "m", "p", "o", "n", "e", "n", "t">>,
       <<"m", "o", "d", "u", "l", "e">>,
       <<"s", "y", "s", "t", "e", "m">>},
      {<<"n", "e", "e", "d", " ", "t", "o">>,
       <<"w", "a", "n", "t", " ", "t", "o">>,
       <<"g", "o", "i", "n", "g", " ", "t", "o">>,
       <<"p", "l", "a", "n", "n", "i", "n", "g", " ", "t", "o">>},
      {<<"h", "o", "w", " ", "d", "o", " ", "I">>,
       <<"h", "o", "w", " ", "c", "a", "n", " ", "I">>,
       <<"w", "h", "a", "t", "'", "s", " ", "t", "h", "e", " ", "b", "e", "s", "t", " ", "w", "a", "y">>},
      {<<"w", "o", "r", "k", "i", "n", "g", " ", "o", "n">>,
       <<"s", "t", "a", "r", "t", "i", "n", "g">>,
       <<"b", "e", "g", "i", "n", "n", "i", "n", "g">>}
    >>


(* _contains_test_content: test_indicators *)
TestIndicators ==
    <<
      {<<"t", "e", "s", "t">>,
       <<"t", "e", "s", "t", "i", "n", "g">>,
       <<"s", "p", "e", "c">>,
       <<"v", "e", "r", "i", "f", "y">>,
       <<"v", "a", "l", "i", "d", "a", "t", "e">>},
      {<<"u", "n", "i", "t", " ", "t", "e", "s", "t">>,
       <<"i", "n", "t", "e", "g", "r", "a", "t", "i", "o", "n", " ", "t", "e", "s", "t">>,
       <<"e", "2", "e", " ", "t", "e", "s", "t">>},
      {<<"c", "h", "e", "c", "k">>,
       <<"a", "s", "s", "e", "r", "t">>,
       <<"e", "x", "p", "e", "c", "t">>,
       <<"s", "h", "o", "u", "l", "d">>},
      {<<"c", "o", "v", "e", "r", "a", "g", "e">>,
       <<"t", "e", "s", "t", " ", "c", "a", "s", "e">>,
       <<"t", "e", "s", "t", " ", "s", "u", "i", "t", "e">>},
      {<<"m", "o", "c", "k">>,
       <<"s", "t", "u", "b">>,
       <<"f", "i", "x", "t", "u", "r", "e">>}
    >>


(* _contains_context_request: context_indicators *)
ContextIndicators ==
    <<
      {<<"s", "i", "m", "i", "l", "a", "r">>,
       <<"b", "e", "f", "o", "r", "e">>,
       <<"p", "r", "e", "v", "i", "o", "u", "s">>,
       <<"h", "i", "s", "t", "o", "r", "y">>},
      {<<"h", "a", "v", "e", " ", "w", "e">>,
       <<"d", "i", "d", " ", "w", "e">>,
       <<"h", "o", "w", " ", "d", "i", "d", " ", "w", "e">>},
      {<<"l", "a", "s", "t", " ", "t", "i", "m", "e">>,
       <<"p", "r", "e", "v", "i", "o", "u", "s", "l", "y">>,
       <<"e", "a", "r", "l", "i", "e", "r">>},
      {<<"e", "x", "p", "e", "r", "i", "e", "n", "c", "e">>,
       <<"p", "a", "t", "t", "e", "r", "n">>,
       <<"l", "e", "s", "s", "o", "n", " ", "l", "e", "a", "r", "n", "e", "d">>},
      {<<"b", "e", "s", "t", " ", "p", "r", "a", "c", "t", "i", "c", "e">>,
       <<"w", "h", "a", "t", " ", "w", "o", "r", "k", "e", "d">>,
       <<"w", "h", "a", "t", " ", "d", "i", "d", "n", "'", "t", " ", "w", "o", "r", "k">>}
    >>

----------------------------------------------------------------------------
(* AgentOrchestrator.analyze_context *)

Invocation(t, trig, prio) == [agent_type |-> t, trigger |-> trig, priority |-> prio]

(* A decision check whose alternative "approach is" is cut down to "is". *)
ContainsDecisionContentShortened(s) ==
    AnyIndicator(DecisionIndicators, s) \/ Contains(Lower(s), <<"i", "s">>)

ContainsDecisionContent(s) == AnyIndicator(DecisionIndicators, s)
ContainsErrorContent(s) == AnyIndicator(ErrorIndicators, s)
(* A task check that also takes the verb "use" for a task keyword. *)
ContainsTaskContentWithUse(s) ==
    AnyIndicator(TaskIndicators, s) \/ Contains(Lower(s), <<"u", "s", "e">>)

ContainsTaskContent(s) == AnyIndicator(TaskIndicators, s)
ContainsTestContent(s) == AnyIndicator(TestIndicators, s)
ContainsContextRequest(s) == AnyIndicator(ContextIndicators, s)

(* sorted(seq, key=priority) and list.sort(key=priority): Python's sort is *)
(* stable, so the result is the elements of priority 1 in their order,     *)
(* then those of priority 2, and so on (priorities are 1 to 4).            *)
HasPriority(k, inv) == inv.priority = k

(* A sort with reverse=True: the lowest priority first. *)
SortedByPriorityReversed(seq) ==
    LET P1(inv) == HasPriority(1, inv)
        P2(inv) == HasPriority(2, inv)
        P3(inv) == HasPriority(3, inv)
        P4(inv) == HasPriority(4, inv)
    IN  SelectSeq(seq, P4) \o SelectSeq(seq, P3) \o SelectSeq(seq, P2)
            \o SelectSeq(seq, P1)

SortedByPriority(seq) ==
    LET P1(inv) == HasPriority(1, inv)
        P2(inv) == HasPriority(2, inv)
        P3(inv) == HasPriority(3, inv)
        P4(inv) == HasPriority(4, inv)
    IN  SelectSeq(seq, P1) \o SelectSeq(seq, P2) \o SelectSeq(seq, P3)
            \o SelectSeq(seq, P4)

(* The five independent checks of lines 116-176, each appending one        *)
(* invocation, then the sort of line 178.                                  *)
AnalyzeContext(content) ==
    LET content_lower == Lower(content)
        decision ==
            IF ContainsDecisionContent(content_lower)
            THEN <<Invocation("memory-store", "decision_made", 1)>> ELSE <<>>
        error ==
            IF ContainsErrorContent(content_lower)
            THEN <<Invocation("debug-context", "error_encountered", 1)>> ELSE <<>>
        task ==
            IF ContainsTaskContent(content_lower)
            THEN <<Invocation("memory-context", "task_started", 1)>> ELSE <<>>
        test ==
            IF ContainsTestContent(content_lower)
            THEN <<Invocation("test-context", "testing_needed", 2)>> ELSE <<>>
        recall ==
            IF ContainsContextRequest(content_lower)
            THEN <<Invocation("memory-recall", "context_needed", 2)>> ELSE <<>>
    IN  SortedByPriority(decision \o error \o task \o test \o recall)


(* The input of scenario A *)
ScenarioA ==
    <<"W", "e", " ", "d", "e", "c", "i", "d", "e", "d", " ", "t", "o", " ",
    "u", "s", "e", " ", "P", "o", "s", "t", "g", "r", "e", "S", "Q", "L",
    " ", "i", "n", "s", "t", "e", "a", "d", " ", "o", "f", " ", "M", "o",
    "n", "g", "o", "D", "B", " ", "f", "o", "r", " ", "A", "C", "I", "D",
    " ", "t", "r", "a", "n", "s", "a", "c", "t", "i", "o", "n", "s">>

(* The input of scenario B *)
ScenarioB ==
    <<"T", "h", "i", "s", " ", "i", "s", " ", "j", "u", "s", "t", " ", "a",
    " ", "r", "a", "n", "d", "o", "m", " ", "c", "o", "m", "m", "e", "n",
    "t">>

(* The phrases the analysed texts are made of *)
PhraseDecided ==
    <<"W", "e", " ", "d", "e", "c", "i", "d", "e", "d">>

PhraseError ==
    <<"E", "r", "r", "o", "r">>

PhraseBuild ==
    <<"b", "u", "i", "l", "d", " ", "i", "t">>

PhraseShould ==
    <<"s", "h", "o", "u", "l", "d">>

PhraseHistory ==
    <<"h", "i", "s", "t", "o", "r", "y">>

PhraseNotWorkingOn ==
    <<"n", "o", "t", " ", "w", "o", "r", "k", "i", "n", "g", " ", "o",
    "n">>

PhraseHello ==
    <<"h", "e", "l", "l", "o">>

PhraseMock ==
    <<"a", " ", "m", "o", "c", "k">>

Phrases ==
    {PhraseDecided,
     PhraseError,
     PhraseBuild,
     PhraseShould,
     PhraseHistory,
     PhraseNotWorkingOn,
     PhraseHello,
     PhraseMock}

Space == <<" ">>

(* Bound: the number of phrases of an analysed text *)
MaxPhrases == 3

RECURSIVE JoinPhrases(_)
JoinPhrases(ps) ==
    IF Len(ps) = 0 THEN <<>>
    ELSE IF Len(ps) = 1 THEN ps[1]
    ELSE ps[1] \o Space \o JoinPhrases(Tail(ps))

AnalysedTexts ==
    {ScenarioA, ScenarioB} \cup {JoinPhrases(ps) : ps \in SeqsUpTo(Phrases, MaxPhrases)}

AnInit ==
    /\ an_content \in AnalysedTexts
    /\ an_invocations = <<>>
    /\ an_done = FALSE

AnParked ==
    /\ an_content = <<>>
    /\ an_invocations = <<>>
    /\ an_done = FALSE

(* One call of analyze_context on the text. *)
Analyze ==
    /\ ~an_done
    /\ an_invocations' = AnalyzeContext(an_content)
    /\ an_done' = TRUE
    /\ UNCHANGED <<an_content, notAn>>
----------------------------------------------------------------------------
(* TaskDecomposer: the pattern tables *)

(* r"\bxyz\b": the literal between two word boundaries *)
Word(lit) == [lit |-> lit, bs |-> TRUE, be |-> TRUE]

(* r"\.xyz\b": a literal that starts with a dot, then a word boundary *)
Ending(lit) == [lit |-> lit, bs |-> FALSE, be |-> TRUE]

(* _initialize_technology_patterns, in dictionary order *)
TechnologyOrder ==
    <<"python", "javascript", "typescript", "docker", "kubernetes",
    "database", "api", "web", "testing", "ci/cd", "cloud", "security">>

TechnologyPatterns(tech) ==
    CASE tech = "python" ->
        <<Word(<<"p","y","t","h","o","n">>),
        Word(<<"p","y">>),
        Ending(<<".","p","y">>),
        Word(<<"p","i","p">>),
        Word(<<"p","y","t","e","s","t">>),
        Word(<<"d","j","a","n","g","o">>),
        Word(<<"f","l","a","s","k">>)>>
      [] tech = "javascript" ->
        <<Word(<<"j","a","v","a","s","c","r","i","p","t">>),
        Word(<<"j","s">>),
        Ending(<<".","j","s">>),
        Word(<<"n","o","d","e">>),
        Word(<<"n","p","m">>),
        Word(<<"r","e","a","c","t">>),
        Word(<<"v","u","e">>)>>
      [] tech = "typescript" ->
        <<Word(<<"t","y","p","e","s","c","r","i","p","t">>),
        Word(<<"t","s">>),
        Ending(<<".","t","s">>),
        Ending(<<".","t","s","x">>)>>
      [] tech = "docker" ->
        <<Word(<<"d","o","c","k","e","r">>),
        Word(<<"c","o","n","t","a","i","n","e","r">>),
        Word(<<"d","o","c","k","e","r","f","i","l","e">>),
        Word(<<"d","o","c","k","e","r","-","c","o","m","p","o","s","e">>)>>
      [] tech = "kubernetes" ->
        <<Word(<<"k","8","s">>),
        Word(<<"k","u","b","e","r","n","e","t","e","s">>),
        Word(<<"k","u","b","e","c","t","l">>),
        Word(<<"h","e","l","m">>)>>
      [] tech = "database" ->
        <<Word(<<"d","a","t","a","b","a","s","e">>),
        Word(<<"d","b">>),
        Word(<<"s","q","l">>),
        Word(<<"p","o","s","t","g","r","e","s">>),
        Word(<<"m","y","s","q","l">>),
        Word(<<"m","o","n","g","o">>)>>
      [] tech = "api" ->
        <<Word(<<"a","p","i">>),
        Word(<<"r","e","s","t">>),
        Word(<<"g","r","a","p","h","q","l">>),
        Word(<<"e","n","d","p","o","i","n","t">>),
        Word(<<"m","i","c","r","o","s","e","r","v","i","c","e">>)>>
      [] tech = "web" ->
        <<Word(<<"w","e","b">>),
        Word(<<"h","t","t","p">>),
        Word(<<"h","t","t","p","s">>),
        Word(<<"h","t","m","l">>),
        Word(<<"c","s","s">>),
        Word(<<"f","r","o","n","t","e","n","d">>)>>
      [] tech = "testing" ->
        <<Word(<<"t","e","s","t">>),
        Word(<<"t","e","s","t","i","n","g">>),
        Word(<<"u","n","i","t"," ","t","e","s","t">>),
        Word(<<"i","n","t","e","g","r","a","t","i","o","n">>),
        Word(<<"e","2","e">>)>>
      [] tech = "ci/cd" ->
        <<Word(<<"c","i">>),
        Word(<<"c","d">>),
        Word(<<"j","e","n","k","i","n","s">>),
        Word(<<"g","i","t","h","u","b"," ","a","c","t","i","o","n","s">>),
        Word(<<"p","i","p","e","l","i","n","e">>)>>
      [] tech = "cloud" ->
        <<Word(<<"a","w","s">>),
        Word(<<"a","z","u","r","e">>),
        Word(<<"g","c","p">>),
        Word(<<"c","l","o","u","d">>),
        Word(<<"t","e","r","r","a","f","o","r","m">>)>>
      [] tech = "security" ->
        <<Word(<<"s","e","c","u","r","i","t","y">>),
        Word(<<"a","u","t","h">>),
        Word(<<"s","s","l">>),
        Word(<<"t","l","s">>),
        Word(<<"o","a","u","t","h">>),
        Word(<<"j","w","t">>)>>

(* _initialize_task_patterns, in dictionary order *)
CategoryOrder ==
    <<"implementation", "debugging", "testing", "architecture", "research", "configuration", "refactoring", "security">>

TaskPatterns(cat) ==
    CASE cat = "implementation" ->
        <<Word(<<"i","m","p","l","e","m","e","n","t">>),
        Word(<<"c","r","e","a","t","e">>),
        Word(<<"b","u","i","l","d">>),
        Word(<<"d","e","v","e","l","o","p">>),
        Word(<<"a","d","d">>),
        Word(<<"w","r","i","t","e">>),
        Word(<<"c","o","d","e">>),
        Word(<<"f","e","a","t","u","r","e">>),
        Word(<<"f","u","n","c","t","i","o","n">>),
        Word(<<"c","o","m","p","o","n","e","n","t">>)>>
      [] cat = "debugging" ->
        <<Word(<<"d","e","b","u","g">>),
        Word(<<"f","i","x">>),
        Word(<<"e","r","r","o","r">>),
        Word(<<"b","u","g">>),
        Word(<<"i","s","s","u","e">>),
        Word(<<"p","r","o","b","l","e","m">>),
        Word(<<"b","r","o","k","e","n">>),
        Word(<<"f","a","i","l","i","n","g">>),
        Word(<<"n","o","t"," ","w","o","r","k","i","n","g">>),
        Word(<<"t","r","o","u","b","l","e","s","h","o","o","t">>)>>
      [] cat = "testing" ->
        <<Word(<<"t","e","s","t">>),
        Word(<<"t","e","s","t","i","n","g">>),
        Word(<<"u","n","i","t"," ","t","e","s","t">>),
        Word(<<"i","n","t","e","g","r","a","t","i","o","n"," ","t","e","s","t">>),
        Word(<<"e","2","e"," ","t","e","s","t">>),
        Word(<<"s","p","e","c">>),
        Word(<<"v","e","r","i","f","y">>),
        Word(<<"v","a","l","i","d","a","t","e">>)>>
      [] cat = "architecture" ->
        <<Word(<<"a","r","c","h","i","t","e","c","t","u","r","e">>),
        Word(<<"d","e","s","i","g","n">>),
        Word(<<"s","t","r","u","c","t","u","r","e">>),
        Word(<<"p","a","t","t","e","r","n">>),
        Word(<<"s","y","s","t","e","m">>),
        Word(<<"m","o","d","u","l","e">>),
        Word(<<"s","e","r","v","i","c","e">>),
        Word(<<"m","i","c","r","o","s","e","r","v","i","c","e">>)>>
      [] cat = "research" ->
        <<Word(<<"r","e","s","e","a","r","c","h">>),
        Word(<<"i","n","v","e","s","t","i","g","a","t","e">>),
        Word(<<"e","x","p","l","o","r","e">>),
        Word(<<"a","n","a","l","y","z","e">>),
        Word(<<"c","o","m","p","a","r","e">>),
        Word(<<"e","v","a","l","u","a","t","e">>),
        Word(<<"s","t","u","d","y">>),
        Word(<<"l","e","a","r","n">>)>>
      [] cat = "configuration" ->
        <<Word(<<"c","o","n","f","i","g","u","r","e">>),
        Word(<<"c","o","n","f","i","g">>),
        Word(<<"s","e","t","u","p">>),
        Word(<<"i","n","s","t","a","l","l">>),
        Word(<<"d","e","p","l","o","y","m","e","n","t">>),
        Word(<<"e","n","v","i","r","o","n","m","e","n","t">>),
        Word(<<"s","e","t","t","i","n","g","s">>)>>
      [] cat = "refactoring" ->
        <<Word(<<"r","e","f","a","c","t","o","r">>),
        Word(<<"c","l","e","a","n"," ","u","p">>),
        Word(<<"r","e","s","t","r","u","c","t","u","r","e">>),
        Word(<<"o","p","t","i","m","i","z","e">>),
        Word(<<"i","m","p","r","o","v","e">>),
        Word(<<"m","o","d","e","r","n","i","z","e">>),
        Word(<<"u","p","g","r","a","d","e">>)>>
      [] cat = "security" ->
        <<Word(<<"s","e","c","u","r","i","t","y">>),
        Word(<<"s","e","c","u","r","e">>),
        Word(<<"a","u","t","h">>),
        Word(<<"p","e","r","m","i","s","s","i","o","n">>),
        Word(<<"v","u","l","n","e","r","a","b","i","l","i","t","y">>),
        Word(<<"e","n","c","r","y","p","t","i","o","n">>),
        Word(<<"s","s","l">>),
        Word(<<"t","l","s">>)>>

(* _initialize_context_mappings; Priority: CRITICAL 1, HIGH 2, MEDIUM 3, LOW 4 *)
ContextMappings(cat) ==
    CASE cat = "implementation" ->
        <<<<"similar_implementations", 1>>,
          <<"technical_patterns", 2>>,
          <<"best_practices", 2>>,
          <<"common_pitfalls", 3>>,
          <<"performance_considerations", 3>>>>
      [] cat = "debugging" ->
        <<<<"error_solutions", 1>>,
          <<"common_pitfalls", 1>>,
          <<"similar_implementations", 2>>,
          <<"technical_patterns", 3>>>>
      [] cat = "testing" ->
        <<<<"testing_strategies", 1>>,
          <<"best_practices", 2>>,
          <<"similar_implementations", 2>>,
          <<"common_pitfalls", 3>>>>
      [] cat = "architecture" ->
        <<<<"architectural_decisions", 1>>,
          <<"technical_patterns", 1>>,
          <<"best_practices", 2>>,
          <<"performance_considerations", 2>>,
          <<"security_practices", 3>>>>
      [] cat = "configuration" ->
        <<<<"configuration_examples", 1>>,
          <<"best_practices", 2>>,
          <<"common_pitfalls", 2>>,
          <<"similar_implementations", 3>>>>
      [] cat = "security" ->
        <<<<"security_practices", 1>>,
          <<"best_practices", 1>>,
          <<"common_pitfalls", 2>>,
          <<"similar_implementations", 3>>>>
      [] OTHER -> <<>>
----------------------------------------------------------------------------
(* TaskDecomposer.decompose_task *)

Digits == {"0", "1", "2", "3", "4", "5", "6", "7", "8", "9"}

(* \w *)
IsWordChar(c) == c \in Range(LowerCase) \cup Range(UpperCase) \cup Digits \cup {"_"}

Whitespace == {" ", "\t", "\n"}

(* Whether the pattern matches the text at position i. *)
MatchesAt(p, s, i) ==
    LET last == i + Len(p.lit) - 1 IN
    /\ i >= 1
    /\ last <= Len(s)
    /\ SubSeq(s, i, last) = p.lit
    /\ p.bs => (i = 1 \/ ~IsWordChar(s[i - 1]))
    /\ p.be => (last = Len(s) \/ ~IsWordChar(s[last + 1]))

MatchPositions(p, s) == {i \in 1..Len(s) : MatchesAt(p, Lower(s), i)}

(* len(re.findall(pattern, text, re.IGNORECASE)) *)
FindAllCount(p, s) == Cardinality(MatchPositions(p, s))

(* re.search(pattern, text, re.IGNORECASE) *)
SearchPattern(p, s) == MatchPositions(p, s) # {}

RECURSIVE SumCounts(_, _)
SumCounts(patterns, s) ==
    IF Len(patterns) = 0 THEN 0
    ELSE FindAllCount(patterns[1], s) + SumCounts(Tail(patterns), s)

CategoryScore(cat, s) == SumCounts(TaskPatterns(cat), Lower(s))

(* _categorize_task: max(category_scores, key=category_scores.get) is the  *)
(* first category, in the dictionary's order, that has the highest score.  *)
CategorizeTask(task) ==
    LET scored == {k \in 1..Len(CategoryOrder) : CategoryScore(CategoryOrder[k], task) > 0}
        best == {k \in scored : \A j \in scored :
                    CategoryScore(CategoryOrder[j], task) <= CategoryScore(CategoryOrder[k], task)}
    IN  IF scored = {} THEN "implementation"
        ELSE CategoryOrder[CHOOSE k \in best : \A j \in best : k <= j]

(* _extract_technologies *)
ExtractTechnologies(task) ==
    {TechnologyOrder[k] : k \in
        {j \in 1..Len(TechnologyOrder) :
            \E n \in 1..Len(TechnologyPatterns(TechnologyOrder[j])) :
                SearchPattern(TechnologyPatterns(TechnologyOrder[j])[n], task)}}

(* The methods class TaskDecomposer defines (lines 100-495). *)
DecomposerMethods ==
    {"__init__", "_initialize_technology_patterns", "_initialize_task_patterns",
     "_initialize_context_mappings", "decompose_task", "_categorize_task",
     "_extract_technologies", "_identify_components", "_generate_context_queries",
     "_build_query_text", "_extract_key_terms", "_generate_tags",
     "_get_threshold_for_priority", "_get_max_results_for_priority",
     "_estimate_complexity", "_estimate_duration", "_identify_risk_factors",
     "_generate_success_criteria", "get_decomposition_summary"}

(* The members of enum TaskCategory (lines 21-32). *)
TaskCategoryMembers ==
    {"IMPLEMENTATION", "DEBUGGING", "TESTING", "ARCHITECTURE", "RESEARCH",
     "CONFIGURATION", "DOCUMENTATION", "REFACTORING", "DEPLOYMENT", "SECURITY"}

Returned(v) == [raised |-> FALSE, error |-> "", value |-> v]
Raised(e) == [raised |-> TRUE, error |-> e, value |-> <<>>]

NoSearchTerms ==
    "AttributeError: 'TaskDecomposer' object has no attribute '_generate_search_terms'"
NoPerformance == "AttributeError: PERFORMANCE"

(* self._generate_search_terms(...), lines 281 and 301: the attribute      *)
(* lookup on the instance.                                                 *)
GenerateSearchTerms(text) ==
    IF "_generate_search_terms" \in DecomposerMethods
    THEN Returned(<<>>)
    ELSE Raised(NoSearchTerms)

(* str.strip() *)
RECURSIVE LStrip(_)
LStrip(s) == IF Len(s) > 0 /\ s[1] \in Whitespace THEN LStrip(Tail(s)) ELSE s

RECURSIVE RStrip(_)
RStrip(s) ==
    IF Len(s) > 0 /\ s[Len(s)] \in Whitespace THEN RStrip(SubSeq(s, 1, Len(s) - 1)) ELSE s

Strip(s) == LStrip(RStrip(s))

And == <<"a", "n", "d">>

(* re.split(r'\band\b', text, flags=re.IGNORECASE) *)
RECURSIVE SplitOnAnd(_)
SplitOnAnd(s) ==
    LET hits == MatchPositions(Word(And), s) IN
    IF hits = {} THEN <<s>>
    ELSE LET i == CHOOSE h \in hits : \A g \in hits : h <= g
         IN  <<SubSeq(s, 1, i - 1)>> \o SplitOnAnd(SubSeq(s, i + Len(And), Len(s)))

Component(text, cat, techs) ==
    [component |-> text, category |-> cat, technologies |-> techs]

(* The sub-components of lines 288-304: one for each part after the first  *)
(* whose stripped length exceeds 10.                                       *)
RECURSIVE SubComponents(_)
SubComponents(parts) ==
    IF Len(parts) = 0 THEN Returned(<<>>)
    ELSE LET part == parts[1]
             rest == SubComponents(Tail(parts))
         IN  IF Len(Strip(part)) > 10
             THEN IF GenerateSearchTerms(part).raised
                  THEN Raised(GenerateSearchTerms(part).error)
                  ELSE IF rest.raised THEN rest
                  ELSE Returned(<<Component(Strip(part), CategorizeTask(part),
                                            ExtractTechnologies(part))>> \o rest.value)
             ELSE rest

(* _identify_components: the main component is built first, and building   *)
(* it evaluates self._generate_search_terms(task_description, ...).        *)
IdentifyComponents(task, cat, techs) ==
    IF GenerateSearchTerms(task).raised
    THEN Raised(GenerateSearchTerms(task).error)
    ELSE LET main == Component(task, cat, techs)
             subs == IF Contains(Lower(task), And)
                     THEN SubComponents(Tail(SplitOnAnd(task)))
                     ELSE Returned(<<>>)
         IN  IF subs.raised THEN subs ELSE Returned(<<main>> \o subs.value)

(* _get_threshold_for_priority, in hundredths *)
ThresholdForPriority(prio) ==
    CASE prio = 1 -> 30 [] prio = 2 -> 40 [] prio = 3 -> 50 [] prio = 4 -> 60

(* _get_max_results_for_priority *)
MaxResultsForPriority(prio) ==
    CASE prio = 1 -> 15 [] prio = 2 -> 10 [] prio = 3 -> 8 [] prio = 4 -> 5

ContextQuery(ctype, prio) ==
    [context_type |-> ctype, priority |-> prio,
     similarity_threshold |-> ThresholdForPriority(prio),
     max_results |-> MaxResultsForPriority(prio)]

(* _generate_context_queries: one query per entry of the category's        *)
(* mapping, then queries.sort(key=priority).                               *)
GenerateContextQueries(cat) ==
    LET mapping == ContextMappings(cat) IN
    SortedByPriority([k \in 1..Len(mapping) |-> ContextQuery(mapping[k][1], mapping[k][2])])

(* The if/elif chain of lines 468-475 for one component: a category that   *)
(* is none of TESTING, DEBUGGING and SECURITY reaches the comparison with   *)
(* TaskCategory.PERFORMANCE, an attribute lookup on the enum.              *)
ComponentCriterion(comp) ==
    IF comp.category = "testing" THEN Returned({"All tests pass with good coverage"})
    ELSE IF comp.category = "debugging" THEN Returned({"Original issue resolved and verified"})
    ELSE IF comp.category = "security" THEN Returned({"Security requirements met and verified"})
    ELSE IF "PERFORMANCE" \in TaskCategoryMembers
         THEN Returned(IF comp.category = "performance"
                       THEN {"Performance requirements met"} ELSE {})
         ELSE Raised(NoPerformance)

TechnologyCriteria(techs) ==
    (IF "testing" \in techs THEN {"Test suite runs successfully"} ELSE {})
    \cup (IF "database" \in techs THEN {"Database operations work correctly"} ELSE {})
    \cup (IF "api" \in techs THEN {"API endpoints respond correctly"} ELSE {})

(* _generate_success_criteria; list(set(criteria)) makes it a set. *)
GenerateSuccessCriteria(components) ==
    IF \E k \in 1..Len(components) : ComponentCriterion(components[k]).raised
    THEN Raised(NoPerformance)
    ELSE Returned(
            {"Task implementation completed successfully",
             "Code follows project conventions and standards",
             "Documentation updated as needed",
             "No regressions in existing functionality"}
            \cup UNION {ComponentCriterion(components[k]).value : k \in 1..Len(components)}
            \cup TechnologyCriteria(UNION {components[k].technologies : k \in 1..Len(components)}))

Decomposition(cat, techs, comps, queries, criteria) ==
    [primary_category |-> cat, technologies_involved |-> techs,
     components |-> comps, context_queries |-> queries,
     success_criteria |-> criteria]

(* decompose_task, lines 212-238.  The duration estimate and the risk      *)
(* factors (lines 222-223) are strings computed from the components; they  *)
(* raise nothing and are left out of the record.                           *)
DecomposeTask(task) ==
    LET cat == CategorizeTask(task)
        techs == ExtractTechnologies(task)
        comps == IdentifyComponents(task, cat, techs)
    IN  IF comps.raised THEN Raised(comps.error)
        ELSE LET queries == GenerateContextQueries(cat)
                 criteria == GenerateSuccessCriteria(comps.value)
             IN  IF criteria.raised THEN Raised(criteria.error)
                 ELSE Returned(Decomposition(cat, techs, comps.value, queries, criteria.value))


(* The input of scenario C *)
ScenarioC ==
    <<"I", "m", "p", "l", "e", "m", "e", "n", "t", " ", "u", "s", "e", "r",
    " ", "a", "u", "t", "h", "e", "n", "t", "i", "c", "a", "t", "i", "o",
    "n", " ", "a", "n", "d", " ", "t", "e", "s", "t", " ", "t", "h", "e",
    " ", "l", "o", "g", "i", "n", " ", "e", "n", "d", "p", "o", "i", "n",
    "t">>

(* The words the decomposed task texts are made of *)
WordImplement ==
    <<"I", "m", "p", "l", "e", "m", "e", "n", "t">>

WordTest ==
    <<"t", "e", "s", "t">>

WordFix ==
    <<"f", "i", "x", " ", "t", "h", "e", " ", "b", "u", "g">>

WordAuth ==
    <<"a", "u", "t", "h">>

WordAndLong ==
    <<"a", "n", "d", " ", "t", "h", "e", " ", "l", "o", "g", "i", "n", " ",
    "e", "n", "d", "p", "o", "i", "n", "t">>

WordResearch ==
    <<"r", "e", "s", "e", "a", "r", "c", "h">>

TaskWords ==
    {WordImplement,
     WordTest,
     WordFix,
     WordAuth,
     WordAndLong,
     WordResearch}

Blank == <<" ", " ", " ">>

(* Bound: the number of words of a decomposed task text *)
MaxTaskWords == 3

TaskTexts ==
    {ScenarioC, Blank} \cup {JoinPhrases(ws) : ws \in SeqsUpTo(TaskWords, MaxTaskWords)}

NoResult == [raised |-> FALSE, error |-> "", value |-> <<>>]

TdInit ==
    /\ td_task \in TaskTexts
    /\ td_result = NoResult
    /\ td_done = FALSE
    /\ td_again = NoResult
    /\ td_again_done = FALSE

TdParked ==
    /\ td_task = <<>>
    /\ td_result = NoResult
    /\ td_done = FALSE
    /\ td_again = NoResult
    /\ td_again_done = FALSE

(* One call of decompose_task on the text. *)
Decompose ==
    /\ ~td_done
    /\ td_result' = DecomposeTask(td_task)
    /\ td_done' = TRUE
    /\ UNCHANGED <<td_task, td_again, td_again_done, notTd>>

(* A second call of decompose_task on the same decomposer with the same    *)
(* text.  decompose_task assigns no attribute of the decomposer: the       *)
(* tables built by __init__ (lines 101-103) are only read.                 *)
DecomposeAgain ==
    /\ td_done
    /\ ~td_again_done
    /\ td_again' = DecomposeTask(td_task)
    /\ td_again_done' = TRUE
    /\ UNCHANGED <<td_task, td_result, td_done, notTd>>
----------------------------------------------------------------------------
(* RelevanceScorer.score_relevance *)

(* Python's None for an optional string field *)
None == "None"

(* An empty dict; a dict is a function from its keys *)
EmptyDict == [k \in {} |-> k]

Min(a, b) == IF a <= b THEN a ELSE b

Max(a, b) == IF a >= b THEN a ELSE b

(* ScoreDimension, in the order score_relevance fills dimension_scores *)
ScoreDimensions ==
    <<"semantic_similarity", "temporal_relevance", "tag_overlap",
      "metadata_match", "content_type_match", "technology_alignment",
      "contextual_similarity", "usage_frequency">>

(* Weights that move a tenth from semantic similarity to usage frequency *)
DefaultWeightsUsageHeavy ==
    [semantic_similarity |-> 20, temporal_relevance |-> 15, tag_overlap |-> 20,
     metadata_match |-> 10, content_type_match |-> 10,
     technology_alignment |-> 10, contextual_similarity |-> 3,
     usage_frequency |-> 12]

(* ScoringWeights(): the default of each field, in hundredths *)
DefaultWeights ==
    [semantic_similarity |-> 30, temporal_relevance |-> 15, tag_overlap |-> 20,
     metadata_match |-> 10, content_type_match |-> 10,
     technology_alignment |-> 10, contextual_similarity |-> 3,
     usage_frequency |-> 2]

(* weights=None *)
NoWeights == [is_none |-> TRUE]

(* A candidate's timestamp is kept as what the scorer reads of it,         *)
(* (datetime.now() - candidate.timestamp).days: timedelta.days is the      *)
(* floor, so it is -1 for an instant up to a day ahead of the clock.       *)
NoTimestamp == [is_none |-> TRUE, days |-> 0]

DaysAgo(d) == [is_none |-> FALSE, days |-> d]

(* _initialize_technology_keywords, with the default of                    *)
(* technology_keywords.get(tech, [tech]) for a technology not in it        *)
TechnologyKeywords(tech) ==
    CASE tech = <<"p", "y", "t", "h", "o", "n">> ->
        {<<"p", "y", "t", "h", "o", "n">>,
         <<"p", "y">>,
         <<"p", "i", "p">>,
         <<"c", "o", "n", "d", "a">>,
         <<"p", "y", "t", "e", "s", "t">>,
         <<"d", "j", "a", "n", "g", "o">>,
         <<"f", "l", "a", "s", "k">>,
         <<"f", "a", "s", "t", "a", "p", "i">>}
      [] tech = <<"j", "a", "v", "a", "s", "c", "r", "i", "p", "t">> ->
        {<<"j", "a", "v", "a", "s", "c", "r", "i", "p", "t">>,
         <<"j", "s">>,
         <<"n", "o", "d", "e">>,
         <<"n", "p", "m">>,
         <<"y", "a", "r", "n">>,
         <<"r", "e", "a", "c", "t">>,
         <<"v", "u", "e">>,
         <<"a", "n", "g", "u", "l", "a", "r">>}
      [] tech = <<"t", "y", "p", "e", "s", "c", "r", "i", "p", "t">> ->
        {<<"t", "y", "p", "e", "s", "c", "r", "i", "p", "t">>,
         <<"t", "s">>,
         <<"t", "s", "c">>,
         <<"t", "s", "x">>}
      [] tech = <<"d", "o", "c", "k", "e", "r">> ->
        {<<"d", "o", "c", "k", "e", "r">>,
         <<"c", "o", "n", "t", "a", "i", "n", "e", "r">>,
         <<"d", "o", "c", "k", "e", "r", "f", "i", "l", "e">>,
         <<"c", "o", "m", "p", "o", "s", "e">>,
         <<"k", "8", "s">>,
         <<"k", "u", "b", "e", "r", "n", "e", "t", "e", "s">>}
      [] tech = <<"d", "a", "t", "a", "b", "a", "s", "e">> ->
        {<<"d", "a", "t", "a", "b", "a", "s", "e">>,
         <<"d", "b">>,
         <<"s", "q", "l">>,
         <<"p", "o", "s", "t", "g", "r", "e", "s">>,
         <<"m", "y", "s", "q", "l">>,
         <<"m", "o", "n", "g", "o">>,
         <<"r", "e", "d", "i", "s">>}
      [] tech = <<"a", "p", "i">> ->
        {<<"a", "p", "i">>,
         <<"r", "e", "s", "t">>,
         <<"g", "r", "a", "p", "h", "q", "l">>,
         <<"e", "n", "d", "p", "o", "i", "n", "t">>,
         <<"m", "i", "c", "r", "o", "s", "e", "r", "v", "i", "c", "e">>,
         <<"s", "e", "r", "v", "i", "c", "e">>}
      [] tech = <<"w", "e", "b">> ->
        {<<"w", "e", "b">>,
         <<"h", "t", "t", "p">>,
         <<"h", "t", "t", "p", "s">>,
         <<"h", "t", "m", "l">>,
         <<"c", "s", "s">>,
         <<"f", "r", "o", "n", "t", "e", "n", "d">>,
         <<"b", "a", "c", "k", "e", "n", "d">>}
      [] tech = <<"c", "l", "o", "u", "d">> ->
        {<<"a", "w", "s">>,
         <<"a", "z", "u", "r", "e">>,
         <<"g", "c", "p">>,
         <<"c", "l", "o", "u", "d">>,
         <<"s", "e", "r", "v", "e", "r", "l", "e", "s", "s">>,
         <<"l", "a", "m", "b", "d", "a">>}
      [] tech = <<"t", "e", "s", "t", "i", "n", "g">> ->
        {<<"t", "e", "s", "t">>,
         <<"t", "e", "s", "t", "i", "n", "g">>,
         <<"u", "n", "i", "t">>,
         <<"i", "n", "t", "e", "g", "r", "a", "t", "i", "o", "n">>,
         <<"e", "2", "e">>,
         <<"s", "p", "e", "c">>,
         <<"m", "o", "c", "k">>}
      [] tech = <<"s", "e", "c", "u", "r", "i", "t", "y">> ->
        {<<"s", "e", "c", "u", "r", "i", "t", "y">>,
         <<"a", "u", "t", "h">>,
         <<"o", "a", "u", "t", "h">>,
         <<"j", "w", "t">>,
         <<"s", "s", "l">>,
         <<"t", "l", "s">>,
         <<"e", "n", "c", "r", "y", "p", "t", "i", "o", "n">>}
      [] OTHER -> {tech}

(* _initialize_content_type_patterns, with the default of                  *)
(* content_type_patterns.get(preference, []); each pattern is the set of   *)
(* its alternatives                                                        *)
ContentTypePatterns(preference) ==
    CASE preference = "decision" ->
        <<{<<"d", "e", "c", "i", "d", "e", "d">>,
           <<"c", "h", "o", "s", "e", "n">>,
           <<"s", "e", "l", "e", "c", "t", "e", "d">>,
           <<"g", "o", "i", "n", "g", " ", "w", "i", "t", "h">>,
           <<"w", "i", "l", "l", " ", "u", "s", "e">>},
          {<<"s", "o", "l", "u", "t", "i", "o", "n">>,
           <<"a", "p", "p", "r", "o", "a", "c", "h">>,
           <<"s", "t", "r", "a", "t", "e", "g", "y">>,
           <<"p", "l", "a", "n">>},
          {<<"r", "e", "s", "o", "l", "v", "e", "d">>,
           <<"f", "i", "x", "e", "d">>,
           <<"i", "m", "p", "l", "e", "m", "e", "n", "t", "e", "d">>,
           <<"d", "e", "p", "l", "o", "y", "e", "d">>}>>
      [] preference = "error" ->
        <<{<<"e", "r", "r", "o", "r">>,
           <<"e", "x", "c", "e", "p", "t", "i", "o", "n">>,
           <<"f", "a", "i", "l", "e">>,
           <<"c", "r", "a", "s", "h">>,
           <<"b", "u", "g">>},
          {<<"n", "o", "t", " ", "w", "o", "r", "k", "i", "n", "g">>,
           <<"b", "r", "o", "k", "e", "n">>,
           <<"i", "s", "s", "u", "e">>,
           <<"p", "r", "o", "b", "l", "e", "m">>},
          {<<"d", "e", "b", "u", "g">>,
           <<"t", "r", "o", "u", "b", "l", "e", "s", "h", "o", "o", "t">>,
           <<"f", "i", "x">>}>>
      [] preference = "implementation" ->
        <<{<<"i", "m", "p", "l", "e", "m", "e", "n", "t">>,
           <<"c", "r", "e", "a", "t", "e">>,
           <<"b", "u", "i", "l", "d">>,
           <<"d", "e", "v", "e", "l", "o", "p">>,
           <<"c", "o", "d", "e">>},
          {<<"f", "u", "n", "c", "t", "i", "o", "n">>,
           <<"m", "e", "t", "h", "o", "d">>,
           <<"c", "l", "a", "s", "s">>,
           <<"c", "o", "m", "p", "o", "n", "e", "n", "t">>,
           <<"m", "o", "d", "u", "l", "e">>},
          {<<"f", "e", "a", "t", "u", "r", "e">>,
           <<"f", "u", "n", "c", "t", "i", "o", "n", "a", "l", "i", "t", "y">>,
           <<"r", "e", "q", "u", "i", "r", "e", "m", "e", "n", "t">>}>>
      [] preference = "configuration" ->
        <<{<<"c", "o", "n", "f", "i", "g">>,
           <<"c", "o", "n", "f", "i", "g", "u", "r", "a", "t", "i", "o", "n">>,
           <<"s", "e", "t", "u", "p">>,
           <<"i", "n", "s", "t", "a", "l", "l">>},
          {<<"e", "n", "v", "i", "r", "o", "n", "m", "e", "n", "t">>,
           <<"s", "e", "t", "t", "i", "n", "g", "s">>,
           <<"p", "a", "r", "a", "m", "e", "t", "e", "r", "s">>},
          {<<"d", "e", "p", "l", "o", "y">>,
           <<"d", "e", "p", "l", "o", "y", "m", "e", "n", "t">>,
           <<"i", "n", "f", "r", "a", "s", "t", "r", "u", "c", "t", "u", "r", "e">>}>>
      [] preference = "best_practice" ->
        <<{<<"b", "e", "s", "t", " ", "p", "r", "a", "c", "t", "i", "c", "e">>,
           <<"r", "e", "c", "o", "m", "m", "e", "n", "d", "a", "t", "i", "o", "n">>,
           <<"s", "h", "o", "u", "l", "d">>,
           <<"o", "u", "g", "h", "t">>},
          {<<"p", "a", "t", "t", "e", "r", "n">>,
           <<"c", "o", "n", "v", "e", "n", "t", "i", "o", "n">>,
           <<"s", "t", "a", "n", "d", "a", "r", "d">>,
           <<"g", "u", "i", "d", "e", "l", "i", "n", "e">>},
          {<<"l", "e", "s", "s", "o", "n", " ", "l", "e", "a", "r", "n", "e", "d">>,
           <<"e", "x", "p", "e", "r", "i", "e", "n", "c", "e">>,
           <<"a", "d", "v", "i", "c", "e">>}>>
      [] preference = "performance" ->
        <<{<<"p", "e", "r", "f", "o", "r", "m", "a", "n", "c", "e">>,
           <<"o", "p", "t", "i", "m", "i", "z", "e">>,
           <<"s", "p", "e", "e", "d">>,
           <<"f", "a", "s", "t">>,
           <<"s", "l", "o", "w">>},
          {<<"m", "e", "m", "o", "r", "y">>,
           <<"c", "p", "u">>,
           <<"r", "e", "s", "o", "u", "r", "c", "e">>,
           <<"s", "c", "a", "l", "a", "b", "i", "l", "i", "t", "y">>},
          {<<"b", "e", "n", "c", "h", "m", "a", "r", "k">>,
           <<"p", "r", "o", "f", "i", "l", "i", "n", "g">>,
           <<"b", "o", "t", "t", "l", "e", "n", "e", "c", "k">>}>>
      [] OTHER -> <<>>


(* math.exp(-0.1 * days / 30) in millionths, for the ages the candidates   *)
(* of this model have                                                      *)
ExpDecay ==
    (-1 :> 1003339)
    @@ (0 :> 1000000)
    @@ (1 :> 996672)
    @@ (2 :> 993356)
    @@ (7 :> 976937)
    @@ (8 :> 973686)
    @@ (30 :> 904837)
    @@ (31 :> 901826)
    @@ (90 :> 740818)
    @@ (91 :> 738353)
    @@ (365 :> 296216)
    @@ (366 :> 295230)
    @@ (455 :> 219442)
    @@ (730 :> 87744)
    @@ (1000 :> 35674)

(* math.log(n) / math.log(10) in millionths for n = 1..9; it is 1 or more  *)
(* from 10 on, where min(1.0, ...) caps it                                 *)
Log10 ==
    <<0, 301030, 477121, 602060, 698970, 778151, 845098, 903090, 954243>>

(* _calculate_temporal_relevance with the scores of the first two steps of *)
(* the default mode exchanged                                              *)
CalculateTemporalRelevanceStepsExchanged(candidate, context) ==
    IF candidate.timestamp.is_none THEN 500000
    ELSE
        LET days == candidate.timestamp.days IN
        IF context.temporal_preference = "recent" THEN ExpDecay[days]
        ELSE IF context.temporal_preference = "historical" THEN
            IF days > 90
            THEN 800000 + (200000 * Min(365, days - 90)) \div 365
            ELSE 600000
        ELSE
            IF days <= 7 THEN 900000
            ELSE IF days <= 30 THEN 1000000
            ELSE IF days <= 90 THEN 800000
            ELSE IF days <= 365 THEN 600000
            ELSE 400000

(* _calculate_temporal_relevance *)
CalculateTemporalRelevance(candidate, context) ==
    IF candidate.timestamp.is_none THEN 500000
    ELSE
        LET days == candidate.timestamp.days IN
        IF context.temporal_preference = "recent" THEN ExpDecay[days]
        ELSE IF context.temporal_preference = "historical" THEN
            IF days > 90
            THEN 800000 + (200000 * Min(365, days - 90)) \div 365
            ELSE 600000
        ELSE
            IF days <= 7 THEN 1000000
            ELSE IF days <= 30 THEN 900000
            ELSE IF days <= 90 THEN 800000
            ELSE IF days <= 365 THEN 600000
            ELSE 400000

(* The tags as they are written, case included. *)
LowerSetAsWritten(tags) == {tags[i] : i \in 1..Len(tags)}

(* set(tag.lower() for tag in tags) *)
LowerSet(tags) == {Lower(tags[i]) : i \in 1..Len(tags)}

(* _calculate_tag_overlap *)
CalculateTagOverlap(candidate, context) ==
    IF context.query_tags = <<>> \/ candidate.tags = <<>> THEN 0
    ELSE
        LET query_tags_set == LowerSet(context.query_tags)
            candidate_tags_set == LowerSet(candidate.tags)
            intersection == query_tags_set \cap candidate_tags_set
            union == query_tags_set \cup candidate_tags_set
        IN  IF union = {} THEN 0
            ELSE (700000 * Cardinality(intersection)) \div Cardinality(union)
                 + (300000 * Cardinality(intersection))
                       \div Cardinality(candidate_tags_set)

(* What one requirement adds to matches, in tenths (lines 331-341).        *)
(* A requirement is [is_list, text, list]: a string or a list of strings.  *)
RequirementMatch(candidate, key, expected_value) ==
    IF key \notin DOMAIN candidate.metadata THEN 0
    ELSE
        LET candidate_value == candidate.metadata[key] IN
        IF expected_value.is_list
        THEN IF candidate_value \in Range(expected_value.list) THEN 10 ELSE 0
        ELSE IF candidate_value = expected_value.text THEN 10
        ELSE IF Contains(Lower(candidate_value), Lower(expected_value.text))
             THEN 7
             ELSE 0

RECURSIVE SumMatches(_, _, _)
SumMatches(candidate, requirements, keys) ==
    IF keys = {} THEN 0
    ELSE LET key == CHOOSE k \in keys : TRUE IN
         RequirementMatch(candidate, key, requirements[key])
             + SumMatches(candidate, requirements, keys \ {key})

(* _calculate_metadata_match *)
CalculateMetadataMatch(candidate, context) ==
    IF context.metadata_requirements = EmptyDict THEN 500000
    ELSE
        LET requirements == context.metadata_requirements
            matches == SumMatches(candidate, requirements, DOMAIN requirements)
            total_requirements == Cardinality(DOMAIN requirements)
        IN  (matches * 100000) \div total_requirements

(* _calculate_content_type_match *)
CalculateContentTypeMatch(candidate, context) ==
    IF context.content_type_preference = None THEN 500000
    ELSE
        LET content_lower == Lower(candidate.content)
            patterns == ContentTypePatterns(context.content_type_preference)
            matches == Cardinality({k \in 1..Len(patterns) :
                                       SearchAlternation(patterns[k], content_lower)})
        IN  IF patterns = <<>> THEN 0
            ELSE Min(1000000, (matches * 1000000) \div Len(patterns))

(* " ".join(tags) *)
RECURSIVE JoinTags(_)
JoinTags(tags) ==
    IF Len(tags) = 0 THEN <<>>
    ELSE IF Len(tags) = 1 THEN tags[1]
    ELSE tags[1] \o <<" ">> \o JoinTags(Tail(tags))

(* _calculate_technology_alignment *)
CalculateTechnologyAlignment(candidate, context) ==
    IF context.target_technologies = {} THEN 500000
    ELSE
        LET content_lower == Lower(candidate.content)
            tags_lower == [i \in 1..Len(candidate.tags) |-> Lower(candidate.tags[i])]
            aligned ==
                {target_tech \in context.target_technologies :
                    LET tech_keywords == TechnologyKeywords(Lower(target_tech)) IN
                    \/ \E keyword \in tech_keywords : Contains(content_lower, keyword)
                    \/ \E keyword \in tech_keywords : Contains(JoinTags(tags_lower), keyword)}
        IN  (Cardinality(aligned) * 1000000)
                \div Cardinality(context.target_technologies)

(* error_indicators of _calculate_contextual_similarity *)
ErrorContextIndicators ==
    {<<"e", "r", "r", "o", "r">>,
     <<"e", "x", "c", "e", "p", "t", "i", "o", "n">>,
     <<"f", "i", "x">>,
     <<"d", "e", "b", "u", "g">>,
     <<"s", "o", "l", "u", "t", "i", "o", "n">>}

(* _calculate_contextual_similarity *)
CalculateContextualSimilarity(candidate, context) ==
    LET factors == context.contextual_factors
        in_content ==
            /\ "task_category" \in DOMAIN factors
            /\ Contains(Lower(candidate.content), Lower(factors.task_category))
        in_tags ==
            /\ "task_category" \in DOMAIN factors
            /\ Lower(factors.task_category) \in LowerSet(candidate.tags)
        error_aligned ==
            /\ "error_context" \in DOMAIN factors
            /\ \E indicator \in ErrorContextIndicators :
                  Contains(Lower(candidate.content), indicator)
    IN  Min(1000000, 500000 + (IF in_content THEN 200000 ELSE 0)
                            + (IF in_tags THEN 300000 ELSE 0)
                            + (IF error_aligned THEN 300000 ELSE 0))

(* _calculate_usage_frequency *)
CalculateUsageFrequency(candidate, context) ==
    IF candidate.usage_count <= 0 THEN 0
    ELSE IF candidate.usage_count + 1 >= 10 THEN 1000000
    ELSE Min(1000000, Log10[candidate.usage_count + 1])

(* content_indicators of _apply_contextual_adjustments *)
ComplexityIndicators(complexity) ==
    CASE complexity = "simple" ->
        {<<"s", "i", "m", "p", "l", "e">>,
         <<"b", "a", "s", "i", "c">>,
         <<"e", "a", "s", "y">>,
         <<"s", "t", "r", "a", "i", "g", "h", "t", "f", "o", "r", "w", "a", "r", "d">>}
      [] complexity = "complex" ->
        {<<"c", "o", "m", "p", "l", "e", "x">>,
         <<"a", "d", "v", "a", "n", "c", "e", "d">>,
         <<"s", "o", "p", "h", "i", "s", "t", "i", "c", "a", "t", "e", "d">>,
         <<"i", "n", "t", "r", "i", "c", "a", "t", "e">>}
      [] OTHER -> {}

(* stage_keywords of _apply_contextual_adjustments *)
StageKeywords(stage) ==
    CASE stage = "planning" ->
        {<<"p", "l", "a", "n">>,
         <<"d", "e", "s", "i", "g", "n">>,
         <<"a", "r", "c", "h", "i", "t", "e", "c", "t", "u", "r", "e">>,
         <<"s", "t", "r", "a", "t", "e", "g", "y">>}
      [] stage = "development" ->
        {<<"i", "m", "p", "l", "e", "m", "e", "n", "t">>,
         <<"c", "o", "d", "e">>,
         <<"b", "u", "i", "l", "d">>,
         <<"d", "e", "v", "e", "l", "o", "p">>}
      [] stage = "testing" ->
        {<<"t", "e", "s", "t">>,
         <<"v", "e", "r", "i", "f", "y">>,
         <<"v", "a", "l", "i", "d", "a", "t", "e">>,
         <<"c", "h", "e", "c", "k">>}
      [] stage = "deployment" ->
        {<<"d", "e", "p", "l", "o", "y">>,
         <<"r", "e", "l", "e", "a", "s", "e">>,
         <<"p", "r", "o", "d", "u", "c", "t", "i", "o", "n">>,
         <<"l", "a", "u", "n", "c", "h">>}
      [] stage = "maintenance" ->
        {<<"m", "a", "i", "n", "t", "a", "i", "n">>,
         <<"u", "p", "d", "a", "t", "e">>,
         <<"p", "a", "t", "c", "h">>,
         <<"f", "i", "x">>}
      [] OTHER -> {}

(* datetime.now() - candidate.timestamp with the timestamp None *)
NoneTimestampError ==
    "TypeError: unsupported operand type(s) for -: 'datetime.datetime' and 'NoneType'"

(* _apply_contextual_adjustments: the adjusted score with the new boosters *)
(* and penalties, or the exception of line 434.                            *)
ApplyContextualAdjustments(base_score, candidate, context) ==
    LET factors == context.contextual_factors
        content_lower == Lower(candidate.content)
        urgent == /\ "urgency_level" \in DOMAIN factors
                  /\ factors.urgency_level = "high"
        recent == urgent /\ candidate.timestamp.days <= 7
        complexity_aligned ==
            /\ "complexity_level" \in DOMAIN factors
            /\ \E indicator \in ComplexityIndicators(factors.complexity_level) :
                  Contains(content_lower, indicator)
        domain_mismatch ==
            /\ "domain_specificity" \in DOMAIN factors
            /\ factors.domain_specificity # <<>>
            /\ ~Contains(content_lower, Lower(factors.domain_specificity))
        stage_match ==
            /\ "implementation_stage" \in DOMAIN factors
            /\ \E keyword \in StageKeywords(factors.implementation_stage) :
                  Contains(content_lower, keyword)
    IN  IF urgent /\ candidate.timestamp.is_none THEN Raised(NoneTimestampError)
        ELSE Returned(
            [score |-> base_score
                       + (IF recent THEN 100000 ELSE 0)
                       + (IF complexity_aligned THEN 50000 ELSE 0)
                       - (IF domain_mismatch THEN 50000 ELSE 0)
                       + (IF stage_match THEN 80000 ELSE 0),
             boosters |->
                 (IF recent THEN <<"Recent memory for urgent task">> ELSE <<>>)
                 \o (IF complexity_aligned
                     THEN <<"Complexity alignment ("
                                \o factors.complexity_level \o ")">>
                     ELSE <<>>)
                 \o (IF stage_match
                     THEN <<"Implementation stage match ("
                                \o factors.implementation_stage \o ")">>
                     ELSE <<>>),
             penalties |-> IF domain_mismatch THEN <<"Domain mismatch">> ELSE <<>>])


(* The weighted total of lines 230-239, in millionths *)
WeightedTotal(scores, weights) ==
    (scores.semantic_similarity * weights.semantic_similarity
     + scores.temporal_relevance * weights.temporal_relevance
     + scores.tag_overlap * weights.tag_overlap
     + scores.metadata_match * weights.metadata_match
     + scores.content_type_match * weights.content_type_match
     + scores.technology_alignment * weights.technology_alignment
     + scores.contextual_similarity * weights.contextual_similarity
     + scores.usage_frequency * weights.usage_frequency) \div 100

(* _calculate_confidence *)
CalculateConfidence(dimension_scores, total_score) ==
    LET high_scores == Cardinality({k \in 1..Len(ScoreDimensions) :
                           dimension_scores[ScoreDimensions[k]] > 700000})
        low_scores == Cardinality({k \in 1..Len(ScoreDimensions) :
                          dimension_scores[ScoreDimensions[k]] < 300000})
        base_confidence ==
            IF high_scores >= 3 THEN 900000
            ELSE IF high_scores >= 2 THEN 800000
            ELSE IF low_scores >= 4 THEN 400000
            ELSE 600000
    IN  IF total_score > 900000 \/ total_score < 100000
        THEN (base_confidence * 9) \div 10
        ELSE base_confidence

(* sorted(dimension_scores.items(), key=score, reverse=True): a stable     *)
(* sort, equal scores stay in the order of the dictionary                  *)
RECURSIVE InsertByScore(_, _, _)
InsertByScore(dimension, sorted, scores) ==
    IF sorted = <<>> THEN <<dimension>>
    ELSE IF scores[Head(sorted)] >= scores[dimension]
         THEN <<Head(sorted)>> \o InsertByScore(dimension, Tail(sorted), scores)
         ELSE <<dimension>> \o sorted

RECURSIVE SortedDimensions(_, _)
SortedDimensions(dimensions, scores) ==
    IF dimensions = <<>> THEN <<>>
    ELSE InsertByScore(dimensions[Len(dimensions)],
                       SortedDimensions(SubSeq(dimensions, 1, Len(dimensions) - 1), scores),
                       scores)

(* list[:n] *)
Prefix(seq, n) == SubSeq(seq, 1, Min(n, Len(seq)))

(* _generate_reasoning: a line for each of the top three dimensions that   *)
(* scores above 0.6 (the score as {:.2f}, in hundredths), then the first   *)
(* three boosters and the first two penalties.                             *)
GenerateReasoning(dimension_scores, boosters, penalties) ==
    LET top_dimensions == Prefix(SortedDimensions(ScoreDimensions, dimension_scores), 3)
        strong == SelectSeq(top_dimensions, LAMBDA d : dimension_scores[d] > 600000)
    IN  [k \in 1..Len(strong) |->
            <<"strong contribution", strong[k],
              (dimension_scores[strong[k]] + 5000) \div 10000>>]
        \o (IF boosters # <<>> THEN <<<<"Positive factors", Prefix(boosters, 3)>>>> ELSE <<>>)
        \o (IF penalties # <<>> THEN <<<<"Limiting factors", Prefix(penalties, 2)>>>> ELSE <<>>)

(* The total returned as it is. *)
ClampOmitted(total_score) == total_score

(* min(1.0, max(0.0, total_score)), line 255 *)
Clamp(total_score) == Min(1000000, Max(0, total_score))

(* The eight dimension scores of lines 189-227 *)
DimensionScores(candidate, context) ==
    [semantic_similarity |-> candidate.base_similarity_score,
     temporal_relevance |-> CalculateTemporalRelevance(candidate, context),
     tag_overlap |-> CalculateTagOverlap(candidate, context),
     metadata_match |-> CalculateMetadataMatch(candidate, context),
     content_type_match |-> CalculateContentTypeMatch(candidate, context),
     technology_alignment |-> CalculateTechnologyAlignment(candidate, context),
     contextual_similarity |-> CalculateContextualSimilarity(candidate, context),
     usage_frequency |-> CalculateUsageFrequency(candidate, context)]

(* score_relevance: the RelevanceScore, or the exception it ends by *)
ScoreRelevance(candidate, context, weights) ==
    LET used == IF weights = NoWeights THEN DefaultWeights ELSE weights
        dimension_scores == DimensionScores(candidate, context)
        boosters ==
            (IF dimension_scores.semantic_similarity > 800000
             THEN <<"High semantic similarity">> ELSE <<>>)
            \o (IF dimension_scores.tag_overlap > 700000
                THEN <<"Strong tag alignment">> ELSE <<>>)
            \o (IF dimension_scores.technology_alignment > 800000
                THEN <<"Perfect technology match">> ELSE <<>>)
        penalties ==
            IF dimension_scores.semantic_similarity <= 800000
               /\ dimension_scores.semantic_similarity < 300000
            THEN <<"Low semantic similarity">> ELSE <<>>
        total_score == WeightedTotal(dimension_scores, used)
        adjusted == ApplyContextualAdjustments(total_score, candidate, context)
    IN  IF adjusted.raised THEN Raised(adjusted.error)
        ELSE
            LET all_boosters == boosters \o adjusted.value.boosters
                all_penalties == penalties \o adjusted.value.penalties
            IN  Returned(
                    [total_score |-> Clamp(adjusted.value.score),
                     dimension_scores |-> dimension_scores,
                     confidence |-> CalculateConfidence(dimension_scores,
                                                        adjusted.value.score),
                     reasoning |-> GenerateReasoning(dimension_scores,
                                                     all_boosters, all_penalties),
                     boosters |-> all_boosters,
                     penalties |-> all_penalties])

(* get_optimal_weights_for_context: the four adjustments of lines 558-574 *)
(* made one after the other on ScoringWeights(), in hundredths.  A None    *)
(* preference, an empty technology set and an absent error-context key are *)
(* the false cases of the four conditions.                                 *)
GetOptimalWeightsForContext(context) ==
    LET start == DefaultWeights
        recent ==
            IF context.temporal_preference = "recent"
            THEN [start EXCEPT !.temporal_relevance = 25,
                               !.semantic_similarity = 25]
            ELSE start
        typed ==
            IF context.content_type_preference # None
            THEN [recent EXCEPT !.content_type_match = 20,
                                !.semantic_similarity = 25]
            ELSE recent
        technical ==
            IF context.target_technologies # {}
            THEN [typed EXCEPT !.technology_alignment = 20,
                               !.tag_overlap = 25]
            ELSE typed
    IN  IF "error_context" \in DOMAIN context.contextual_factors
        THEN [technical EXCEPT !.semantic_similarity = 40,
                               !.content_type_match = 25,
                               !.temporal_relevance = 10]
        ELSE technical

(* The candidates, contexts and weight profiles scored *)

ContentMemo ==
    <<"m", "e", "m", "o">>

ContentFix ==
    <<"S", "i", "m", "p", "l", "e", " ", "f", "i", "x", ":", " ", "t", "e",
    "s", "t", " ", "t", "h", "e", " ", "A", "P", "I", " ", "e", "r", "r",
    "o", "r">>

ContentBroken ==
    <<"e", "r", "r", "o", "r", ":", " ", "b", "r", "o", "k", "e", "n", ",",
    " ", "f", "i", "x">>

TagApi ==
    <<"A", "P", "I">>

TagApiLower ==
    <<"a", "p", "i">>

TagTesting ==
    <<"t", "e", "s", "t", "i", "n", "g">>

TagPython ==
    <<"p", "y", "t", "h", "o", "n">>

TagDocker ==
    <<"d", "o", "c", "k", "e", "r">>

TechRust ==
    <<"r", "u", "s", "t">>

ProjectApi ==
    <<"a", "p", "i">>

ProjectGateway ==
    <<"A", "P", "I", "-", "g", "a", "t", "e", "w", "a", "y">>

ProjectWeb ==
    <<"w", "e", "b">>

StageDev ==
    <<"d", "e", "v">>

DomainPayments ==
    <<"p", "a", "y", "m", "e", "n", "t", "s">>


Contents == {ContentMemo, ContentFix, ContentBroken}

CandidateTags == {<<>>, <<TagApi, TagTesting>>, <<TagPython>>}

CandidateMetadata == {EmptyDict, [project |-> ProjectApi], [project |-> ProjectGateway]}

(* Ages on each side of every threshold of the temporal score, a missing   *)
(* timestamp, and a timestamp less than a day ahead of the scorer's clock  *)
Timestamps ==
    {NoTimestamp, DaysAgo(-1), DaysAgo(1), DaysAgo(2), DaysAgo(8), DaysAgo(31),
     DaysAgo(91), DaysAgo(366), DaysAgo(730), DaysAgo(1000)}

BaseSimilarities == {0, 250000, 900000, 1000000}

UsageCounts == {0, 1, 20}

Candidates ==
    [content : Contents, tags : CandidateTags, metadata : CandidateMetadata,
     timestamp : Timestamps, base_similarity_score : BaseSimilarities,
     usage_count : UsageCounts]

Text(s) == [is_list |-> FALSE, text |-> s, list |-> <<>>]

OneOf(list) == [is_list |-> TRUE, text |-> <<>>, list |-> list]

QueryTags == {<<>>, <<TagApiLower, TagTesting>>, <<TagDocker, TagApiLower>>}

TargetTechnologies == {{}, {TagApi}, {TagApiLower, TechRust}}

ContentTypePreferences == {None, "error", "unknown"}

TemporalPreferences == {None, "recent", "historical", "any"}

MetadataRequirements ==
    {EmptyDict,
     [project |-> Text(ProjectApi)],
     [project |-> OneOf(<<ProjectWeb, ProjectApi>>), stage |-> Text(StageDev)]}

AllFactors ==
    [task_category |-> TagTesting, urgency_level |-> "high",
     complexity_level |-> "simple", domain_specificity |-> DomainPayments,
     error_context |-> TRUE, implementation_stage |-> "testing"]

ContextualFactors ==
    {EmptyDict,
     [urgency_level |-> "high"],
     [urgency_level |-> "low", error_context |-> TRUE],
     [task_category |-> TagTesting],
     [urgency_level |-> "high", complexity_level |-> "simple",
      implementation_stage |-> "testing"],
     [domain_specificity |-> DomainPayments],
     [domain_specificity |-> <<>>, complexity_level |-> "expert",
      implementation_stage |-> "review"],
     AllFactors}

(* The fields of ScoringContext that score_relevance reads *)
Contexts ==
    [query_tags : QueryTags, target_technologies : TargetTechnologies,
     content_type_preference : ContentTypePreferences,
     temporal_preference : TemporalPreferences,
     metadata_requirements : MetadataRequirements,
     contextual_factors : ContextualFactors]

(* Every weight at 0.50: a profile whose weights sum to 4 *)
HeavyWeights == [d \in Range(ScoreDimensions) |-> 50]

WeightProfiles == {NoWeights, HeavyWeights}

(* Every candidate is scored in the core contexts, and the core candidates *)
(* in every context.                                                       *)
CoreCandidates ==
    {[content |-> ContentFix, tags |-> <<TagApi, TagTesting>>,
      metadata |-> [project |-> ProjectApi], timestamp |-> DaysAgo(2),
      base_similarity_score |-> 900000, usage_count |-> 20],
     [content |-> ContentMemo, tags |-> <<>>, metadata |-> EmptyDict,
      timestamp |-> DaysAgo(1000), base_similarity_score |-> 0,
      usage_count |-> 0],
     [content |-> ContentFix, tags |-> <<TagPython>>,
      metadata |-> [project |-> ProjectGateway], timestamp |-> NoTimestamp,
      base_similarity_score |-> 250000, usage_count |-> 1],
     [content |-> ContentMemo, tags |-> <<TagApi, TagTesting>>,
      metadata |-> EmptyDict, timestamp |-> DaysAgo(-1),
      base_similarity_score |-> 1000000, usage_count |-> 0],
     [content |-> ContentMemo, tags |-> <<TagApiLower, TagTesting>>,
      metadata |-> EmptyDict, timestamp |-> DaysAgo(2),
      base_similarity_score |-> 900000, usage_count |-> 0]}

CoreContexts ==
    {[query_tags |-> <<>>, target_technologies |-> {},
      content_type_preference |-> None, temporal_preference |-> None,
      metadata_requirements |-> EmptyDict, contextual_factors |-> EmptyDict],
     [query_tags |-> <<TagApiLower, TagTesting>>, target_technologies |-> {TagApi},
      content_type_preference |-> "error", temporal_preference |-> "recent",
      metadata_requirements |-> [project |-> Text(ProjectApi)],
      contextual_factors |-> [urgency_level |-> "high"]],
     [query_tags |-> <<TagDocker, TagApiLower>>,
      target_technologies |-> {TagApiLower, TechRust},
      content_type_preference |-> "unknown", temporal_preference |-> "historical",
      metadata_requirements |->
          [project |-> OneOf(<<ProjectWeb, ProjectApi>>), stage |-> Text(StageDev)],
      contextual_factors |-> [domain_specificity |-> DomainPayments]],
     [query_tags |-> <<TagApiLower, TagTesting>>, target_technologies |-> {TagApi},
      content_type_preference |-> "error", temporal_preference |-> "any",
      metadata_requirements |-> [project |-> Text(ProjectApi)],
      contextual_factors |-> AllFactors]}

ScInit ==
    /\ \/ sc_candidate \in Candidates /\ sc_context \in CoreContexts
       \/ sc_candidate \in CoreCandidates /\ sc_context \in Contexts
    /\ sc_weights \in WeightProfiles
    /\ sc_result = NoResult
    /\ sc_done = FALSE

ScParked ==
    /\ sc_candidate = <<>>
    /\ sc_context = <<>>
    /\ sc_weights = <<>>
    /\ sc_result = NoResult
    /\ sc_done = FALSE

(* One call of score_relevance. *)
Score ==
    /\ ~sc_done
    /\ sc_result' = ScoreRelevance(sc_candidate, sc_context, sc_weights)
    /\ sc_done' = TRUE
    /\ UNCHANGED <<sc_candidate, sc_context, sc_weights, notSc>>

(* The contexts for which weights are derived *)
WtInit ==
    /\ sc_candidate = <<>>
    /\ sc_context \in Contexts
    /\ sc_weights = <<>>
    /\ sc_result = NoResult
    /\ sc_done = FALSE

(* One call of get_optimal_weights_for_context. *)
GetOptimalWeights ==
    /\ ~sc_done
    /\ sc_result' = Returned(GetOptimalWeightsForContext(sc_context))
    /\ sc_done' = TRUE
    /\ UNCHANGED <<sc_candidate, sc_context, sc_weights, notSc>>

----------------------------------------------------------------------------
(* ContextBuilder.assemble_context *)
(* Items carry what sections are built from: source hash, relevance,       *)
(* context type and age.  Content, tags, titles and summaries are display  *)
(* text carried along with an item or derived from a finished section, and *)
(* are left out.                                                           *)

(* ContextType *)
ContextTypes ==
    {"technical_patterns", "similar_implementations", "best_practices",
     "common_pitfalls", "configuration_examples", "error_solutions",
     "testing_strategies", "performance_considerations", "security_practices",
     "architectural_decisions"}

(* _initialize_context_mappings, read with .get(): None for a type that is *)
(* not a key                                                               *)
ContextTypeMappings(context_type) ==
    CASE context_type = "similar_implementations" -> "similar_implementations"
      [] context_type = "best_practices" -> "best_practices"
      [] context_type = "common_pitfalls" -> "common_pitfalls"
      [] context_type = "technical_patterns" -> "technical_patterns"
      [] context_type = "error_solutions" -> "error_solutions"
      [] context_type = "testing_strategies" -> "testing_strategies"
      [] context_type = "configuration_examples" -> "configuration_examples"
      [] context_type = "performance_considerations" -> "performance_considerations"
      [] context_type = "security_practices" -> "security_practices"
      [] context_type = "architectural_decisions" -> "architectural_decisions"
      [] OTHER -> None

(* _initialize_section_priorities, read with .get(type, Priority.MEDIUM);  *)
(* Priority: CRITICAL 1, HIGH 2, MEDIUM 3, LOW 4                           *)
SectionPriorities(section_type) ==
    CASE section_type = "overview" -> 1
      [] section_type = "similar_implementations" -> 1
      [] section_type = "best_practices" -> 2
      [] section_type = "technical_patterns" -> 2
      [] section_type = "common_pitfalls" -> 2
      [] section_type = "error_solutions" -> 2
      [] section_type = "testing_strategies" -> 3
      [] section_type = "configuration_examples" -> 3
      [] section_type = "performance_considerations" -> 3
      [] section_type = "security_practices" -> 3
      [] section_type = "architectural_decisions" -> 3
      [] section_type = "recent_related_work" -> 4
      [] OTHER -> 3

(* _get_max_items_for_section *)
MaxItemsForSection(section_type) ==
    CASE section_type = "similar_implementations" -> 8
      [] section_type = "best_practices" -> 6
      [] section_type = "common_pitfalls" -> 5
      [] section_type = "technical_patterns" -> 6
      [] section_type = "error_solutions" -> 8
      [] section_type = "testing_strategies" -> 5
      [] section_type = "configuration_examples" -> 4
      [] section_type = "performance_considerations" -> 4
      [] section_type = "security_practices" -> 4
      [] section_type = "architectural_decisions" -> 5
      [] OTHER -> 5

(* query_id.split("_")[-1]: what follows the last underscore *)
RECURSIVE LastField(_)
LastField(s) ==
    IF Contains(s, <<"_">>) THEN LastField(Tail(s)) ELSE s

DigitChars == <<"0", "1", "2", "3", "4", "5", "6", "7", "8", "9">>

DigitValue(c) == (CHOOSE n \in 1..10 : DigitChars[n] = c) - 1

RECURSIVE DigitsValue(_)
DigitsValue(s) ==
    IF s = <<>> THEN 0
    ELSE 10 * DigitsValue(SubSeq(s, 1, Len(s) - 1)) + DigitValue(s[Len(s)])

IsDigits(s) == s # <<>> /\ \A i \in 1..Len(s) : s[i] \in Digits

(* int(text) for text without blanks: decimal digits with an optional      *)
(* sign, ValueError otherwise                                              *)
ParseInt(s) ==
    IF IsDigits(s) THEN Returned(DigitsValue(s))
    ELSE IF Len(s) > 1 /\ s[1] = "-" /\ IsDigits(Tail(s))
         THEN Returned(0 - DigitsValue(Tail(s)))
    ELSE IF Len(s) > 1 /\ s[1] = "+" /\ IsDigits(Tail(s))
         THEN Returned(DigitsValue(Tail(s)))
    ELSE Raised("ValueError")

(* The None that _find_context_query returns *)
NoQuery == [is_none |-> TRUE]

(* _find_context_query *)
FindContextQuery(query_id, context_queries) ==
    LET query_index ==
            ParseInt(IF Contains(query_id, <<"_">>) THEN LastField(query_id)
                     ELSE query_id)
    IN  IF /\ ~query_index.raised
           /\ 0 <= query_index.value
           /\ query_index.value < Len(context_queries)
        THEN context_queries[query_index.value + 1]
        ELSE IF context_queries # <<>> THEN context_queries[1] ELSE NoQuery

(* The "score" of a raw result: absent, a number, or None *)
ScoreMissing == [kind |-> "missing", number |-> 0]

ScoreNumber(n) == [kind |-> "number", number |-> n]

ScoreNone == [kind |-> "none", number |-> 0]

(* The formats _parse_timestamp tries, in order *)
TimestampFormats == <<"%Y-%m-%dT%H:%M:%S", "%Y-%m-%d %H:%M:%S", "%Y-%m-%d">>

(* _parse_timestamp: a timestamp string is kept as the format it is        *)
(* written in ("" for the empty string) and the instant it denotes, in     *)
(* days before now; the result is the age of the datetime returned, 0 for  *)
(* datetime.now().                                                         *)
ParseTimestamp(timestamp_str) ==
    IF timestamp_str.format = "" THEN 0
    ELSE IF \E k \in 1..Len(TimestampFormats) :
                TimestampFormats[k] = timestamp_str.format
         THEN timestamp_str.days_ago
         ELSE 0

ContextItem(hash, score, ctype, age) ==
    [source_hash |-> hash, relevance_score |-> score, context_type |-> ctype,
     days_ago |-> age]

(* The body of the try of lines 197-220 for one result: float() of a score *)
(* that is None raises TypeError; a missing score is 0.5.                  *)
ParseResult(result, context_query) ==
    IF result.score.kind = "none"
    THEN Raised("TypeError: float() argument must be a string or a number, not 'NoneType'")
    ELSE Returned(ContextItem(result.hash,
                              IF result.score.kind = "missing" THEN 500000
                              ELSE result.score.number,
                              context_query.context_type,
                              ParseTimestamp(result.timestamp)))

(* The items of one result list: a result whose parsing raises is logged   *)
(* and left out (lines 222-224).                                           *)
ParsedItems(result_list, context_query) ==
    LET parsed == [i \in 1..Len(result_list) |->
                      ParseResult(result_list[i], context_query)]
        kept == SelectSeq(parsed, LAMBDA r : ~r.raised)
    IN  [i \in 1..Len(kept) |-> kept[i].value]

(* list.sort(key=relevance_score, reverse=True): stable, equal scores stay *)
(* in their order                                                          *)
RECURSIVE InsertByRelevance(_, _)
InsertByRelevance(item, sorted) ==
    IF sorted = <<>> THEN <<item>>
    ELSE IF Head(sorted).relevance_score >= item.relevance_score
         THEN <<Head(sorted)>> \o InsertByRelevance(item, Tail(sorted))
         ELSE <<item>> \o sorted

RECURSIVE SortedByRelevance(_)
SortedByRelevance(items) ==
    IF items = <<>> THEN <<>>
    ELSE InsertByRelevance(items[Len(items)],
                           SortedByRelevance(SubSeq(items, 1, Len(items) - 1)))

(* The loop of lines 188-224 over memory_results.items(), in the           *)
(* dictionary's order; an entry is <<query_id, results>>.                  *)
RECURSIVE CollectItems(_, _)
CollectItems(memory_results, context_queries) ==
    IF memory_results = <<>> THEN <<>>
    ELSE
        LET context_query == FindContextQuery(memory_results[1][1], context_queries)
        IN  (IF context_query = NoQuery THEN <<>>
             ELSE ParsedItems(memory_results[1][2], context_query))
            \o CollectItems(Tail(memory_results), context_queries)

(* _parse_memory_results *)
ParseMemoryResults(memory_results, context_queries) ==
    SortedByRelevance(CollectItems(memory_results, context_queries))

(* The keys of sections_data in insertion order: the section types of the  *)
(* items in the order of their first item                                  *)
RECURSIVE SectionOrder(_, _)
SectionOrder(context_items, seen) ==
    IF context_items = <<>> THEN <<>>
    ELSE
        LET section_type == ContextTypeMappings(Head(context_items).context_type)
        IN  IF section_type = None \/ section_type \in seen
            THEN SectionOrder(Tail(context_items), seen)
            ELSE <<section_type>>
                 \o SectionOrder(Tail(context_items), seen \cup {section_type})

(* _group_items_by_section: a sequence of <<section_type, items>> *)
GroupItemsBySection(context_items) ==
    LET order == SectionOrder(context_items, {}) IN
    [k \in 1..Len(order) |->
        <<order[k],
          SelectSeq(context_items,
                    LAMBDA item : ContextTypeMappings(item.context_type) = order[k])>>]

ContextSection(section_type, items, priority) ==
    [section_type |-> section_type, items |-> items, priority |-> priority]

(* _create_context_sections without the truncation of line 301 *)
CreateContextSectionsUncapped(sections_data) ==
    LET populated == SelectSeq(sections_data, LAMBDA entry : entry[2] # <<>>) IN
    [k \in 1..Len(populated) |->
        ContextSection(populated[k][1],
                       SortedByRelevance(populated[k][2]),
                       SectionPriorities(populated[k][1]))]

(* _create_context_sections *)
CreateContextSections(sections_data) ==
    LET populated == SelectSeq(sections_data, LAMBDA entry : entry[2] # <<>>) IN
    [k \in 1..Len(populated) |->
        ContextSection(populated[k][1],
                       Prefix(SortedByRelevance(populated[k][2]),
                              MaxItemsForSection(populated[k][1])),
                       SectionPriorities(populated[k][1]))]

(* _create_overview_section with Priority.HIGH in place of CRITICAL *)
CreateOverviewSectionHigh(context_items) ==
    ContextSection("overview",
                   <<ContextItem("overview_generated", 1000000, "technical_patterns", 0)>>,
                   2)

(* _create_overview_section *)
CreateOverviewSection(context_items) ==
    ContextSection("overview",
                   <<ContextItem("overview_generated", 1000000, "technical_patterns", 0)>>,
                   1)

(* The typed sections alone. *)
AddSpecialSectionsNoOverview(sections, context_items) == sections

(* _add_special_sections: item.timestamp > now - 30 days is an age of less *)
(* than 30 days                                                            *)
AddSpecialSections(sections, context_items) ==
    LET recent_items == SelectSeq(context_items, LAMBDA item : item.days_ago < 30) IN
    <<CreateOverviewSection(context_items)>> \o sections
        \o (IF recent_items # <<>>
            THEN <<ContextSection("recent_related_work", Prefix(recent_items, 5), 4)>>
            ELSE <<>>)

(* The sections in the order they were added. *)
SectionsLeftUnsorted(sections) == sections

(* sections.sort(key=lambda s: s.priority.value), line 149 *)
SectionsSortedByPriority(sections) == SortedByPriority(sections)

RECURSIVE WeightedSum(_, _)
WeightedSum(context_items, i) ==
    IF i > Len(context_items) THEN 0
    ELSE context_items[i].relevance_score * Max(10, 100 - 5 * (i - 1))
         + WeightedSum(context_items, i + 1)

(* _calculate_overall_relevance: position weights in hundredths *)
CalculateOverallRelevance(context_items) ==
    IF context_items = <<>> THEN 0
    ELSE LET top == Prefix(context_items, 20) IN
         WeightedSum(top, 1) \div (100 * Len(top))

RECURSIVE TotalResults(_)
TotalResults(memory_results) ==
    IF memory_results = <<>> THEN 0
    ELSE Len(memory_results[1][2]) + TotalResults(Tail(memory_results))

(* assemble_context *)
AssembleContext(context_queries, memory_results) ==
    LET context_items == ParseMemoryResults(memory_results, context_queries)
        sections_data == GroupItemsBySection(context_items)
        sections ==
            SectionsSortedByPriority(
                AddSpecialSections(CreateContextSections(sections_data), context_items))
    IN  [sections |-> sections,
         total_items |-> Len(context_items),
         estimated_relevance |-> CalculateOverallRelevance(context_items),
         assembly_metadata |->
             [total_memory_results |-> TotalResults(memory_results),
              sections_created |-> Len(sections),
              highest_relevance |->
                  IF context_items = <<>> THEN 0 ELSE context_items[1].relevance_score,
              context_types_found |->
                  {context_items[i].context_type : i \in 1..Len(context_items)}]]

(* The decompositions and result maps assembled *)

QueryId0 ==
    <<"q", "u", "e", "r", "y", "_", "0">>

QueryId1 ==
    <<"q", "u", "e", "r", "y", "_", "1">>

QueryId7 ==
    <<"q", "u", "e", "r", "y", "_", "7">>

QueryIdBare ==
    <<"2">>

QueryIdName ==
    <<"r", "e", "c", "e", "n", "t">>


QueryIds == {QueryId0, QueryId1, QueryId7, QueryIdBare, QueryIdName}

RawResult(hash, score, format, age) ==
    [hash |-> hash, score |-> score,
     timestamp |-> [format |-> format, days_ago |-> age]]

(* Result lists: none, one good result, one whose score is None, a mix,    *)
(* and nine good results of one query (more than any section's cap)        *)
ResultLists ==
    {<<>>,
     <<RawResult("a1", ScoreNumber(900000), "%Y-%m-%dT%H:%M:%S", 3)>>,
     <<RawResult("b1", ScoreNone, "%Y-%m-%dT%H:%M:%S", 3)>>,
     <<RawResult("c1", ScoreNumber(400000), "%Y-%m-%d", 200),
       RawResult("c2", ScoreNone, "", 0),
       RawResult("c3", ScoreMissing, "%d/%m/%Y", 400),
       RawResult("c4", ScoreNumber(950000), "%Y-%m-%d %H:%M:%S", 45)>>,
     [i \in 1..9 |->
         RawResult("d" \o ToString(i), ScoreNumber(100000 * i),
                   "%Y-%m-%dT%H:%M:%S", 10 * i)]}

QueryLists ==
    {<<>>,
     <<ContextQuery("best_practices", 2)>>,
     GenerateContextQueries("implementation"),
     GenerateContextQueries("testing"),
     GenerateContextQueries("debugging")}

MaxResultKeys == 2

(* memory_results: up to MaxResultKeys entries with distinct keys *)
MemoryResults ==
    {m \in SeqsUpTo(QueryIds \X ResultLists, MaxResultKeys) :
        \A i, j \in 1..Len(m) : i # j => m[i][1] # m[j][1]}

NoContext == <<>>

CbInit ==
    /\ cb_queries \in QueryLists
    /\ cb_results \in MemoryResults
    /\ cb_context = NoContext
    /\ cb_done = FALSE

CbParked ==
    /\ cb_queries = <<>>
    /\ cb_results = <<>>
    /\ cb_context = NoContext
    /\ cb_done = FALSE

(* One call of assemble_context. *)
Assemble ==
    /\ ~cb_done
    /\ cb_context' = AssembleContext(cb_queries, cb_results)
    /\ cb_done' = TRUE
    /\ UNCHANGED <<cb_queries, cb_results, notCb>>

----------------------------------------------------------------------------
(* AgentMemoryIntegration and the module-level entry points of             *)
(* integration.py.  The storage backend is the collaborator of the         *)
(* interface section: store(memory) returns a hash or raises,              *)
(* search(query, limit, similarity_threshold) returns memories or raises.  *)

(* tech_keywords of _generate_smart_tags, in dictionary order *)
TagTechKeywords ==
    <<
      [tag |-> <<"p", "y", "t", "h", "o", "n">>,
       keywords |-> <<<<"p", "y", "t", "h", "o", "n">>,
                     <<"p", "y">>,
                     <<"p", "i", "p">>,
                     <<"p", "y", "t", "e", "s", "t">>,
                     <<"d", "j", "a", "n", "g", "o">>,
                     <<"f", "l", "a", "s", "k">>>>],
      [tag |-> <<"j", "a", "v", "a", "s", "c", "r", "i", "p", "t">>,
       keywords |-> <<<<"j", "a", "v", "a", "s", "c", "r", "i", "p", "t">>,
                     <<"j", "s">>,
                     <<"n", "o", "d", "e">>,
                     <<"n", "p", "m">>,
                     <<"r", "e", "a", "c", "t">>,
                     <<"v", "u", "e">>>>],
      [tag |-> <<"d", "o", "c", "k", "e", "r">>,
       keywords |-> <<<<"d", "o", "c", "k", "e", "r">>,
                     <<"c", "o", "n", "t", "a", "i", "n", "e", "r">>,
                     <<"d", "o", "c", "k", "e", "r", "f", "i", "l", "e">>>>],
      [tag |-> <<"d", "a", "t", "a", "b", "a", "s", "e">>,
       keywords |-> <<<<"d", "a", "t", "a", "b", "a", "s", "e">>,
                     <<"d", "b">>,
                     <<"s", "q", "l">>,
                     <<"p", "o", "s", "t", "g", "r", "e", "s">>,
                     <<"m", "y", "s", "q", "l">>>>],
      [tag |-> <<"a", "p", "i">>,
       keywords |-> <<<<"a", "p", "i">>,
                     <<"r", "e", "s", "t">>,
                     <<"e", "n", "d", "p", "o", "i", "n", "t">>,
                     <<"m", "i", "c", "r", "o", "s", "e", "r", "v", "i", "c", "e">>>>],
      [tag |-> <<"t", "e", "s", "t", "i", "n", "g">>,
       keywords |-> <<<<"t", "e", "s", "t">>,
                     <<"t", "e", "s", "t", "i", "n", "g">>,
                     <<"u", "n", "i", "t">>,
                     <<"i", "n", "t", "e", "g", "r", "a", "t", "i", "o", "n">>>>]
    >>

(* The four content-type checks of _generate_smart_tags, in order *)
TagContentKeywords ==
    <<
      [tag |-> <<"d", "e", "c", "i", "s", "i", "o", "n">>,
       keywords |-> <<<<"d", "e", "c", "i", "d", "e", "d">>,
                     <<"c", "h", "o", "s", "e", "n">>,
                     <<"s", "o", "l", "u", "t", "i", "o", "n">>>>],
      [tag |-> <<"b", "u", "g", "-", "f", "i", "x">>,
       keywords |-> <<<<"e", "r", "r", "o", "r">>,
                     <<"b", "u", "g">>,
                     <<"f", "i", "x">>,
                     <<"d", "e", "b", "u", "g">>>>],
      [tag |-> <<"i", "m", "p", "l", "e", "m", "e", "n", "t", "a", "t", "i", "o", "n">>,
       keywords |-> <<<<"i", "m", "p", "l", "e", "m", "e", "n", "t">>,
                     <<"c", "r", "e", "a", "t", "e">>,
                     <<"b", "u", "i", "l", "d">>>>],
      [tag |-> <<"c", "o", "n", "f", "i", "g", "u", "r", "a", "t", "i", "o", "n">>,
       keywords |-> <<<<"c", "o", "n", "f", "i", "g">>,
                     <<"s", "e", "t", "u", "p">>,
                     <<"i", "n", "s", "t", "a", "l", "l">>>>]
    >>

AnyKeywordIn(keywords, content_lower) ==
    \E k \in 1..Len(keywords) : Contains(content_lower, keywords[k])

TagProjectPrefix == <<"p", "r", "o", "j", "e", "c", "t", "-">>

TagAgentStored == <<"a", "g", "e", "n", "t", "-", "s", "t", "o", "r", "e", "d">>

TagAutonomous == <<"a", "u", "t", "o", "n", "o", "m", "o", "u", "s">>

UnhashableList == "TypeError: unhashable type: 'list'"

(* _generate_smart_tags.  The list returned is list(set(tags)), whose      *)
(* order is that of the set's iteration; the tags are kept as the set.     *)
(* A category that is a list is appended like any other and makes          *)
(* set(tags) raise TypeError.                                              *)
GenerateSmartTags(content, metadata) ==
    LET content_lower == Lower(content)
        matched(tbl) ==
            {tbl[k].tag : k \in {j \in 1..Len(tbl) :
                                     AnyKeywordIn(tbl[j].keywords, content_lower)}}
    IN  IF "category" \in DOMAIN metadata /\ metadata["category"].is_list
        THEN Raised(UnhashableList)
        ELSE Returned(
                matched(TagTechKeywords)
                \cup matched(TagContentKeywords)
                \cup (IF "project" \in DOMAIN metadata
                      THEN {TagProjectPrefix \o metadata["project"]} ELSE {})
                \cup (IF "category" \in DOMAIN metadata
                      THEN {metadata["category"].text} ELSE {})
                \cup {TagAgentStored, TagAutonomous})

(* storage_invocations, line 56 *)
StorageInvocations(analysis) ==
    SelectSeq(analysis, LAMBDA inv : inv.agent_type = "memory-store")

(* Every invocation taken for a storage invocation. *)
StorageInvocationsAny(analysis) == analysis

(* The context of the memory-store invocation, orchestrator.py:121-126:    *)
(* its "reason"; it has no "tags" key.                                     *)
StorageContext == [reason |-> "Decision or solution detected"]

(* enhanced_metadata, lines 68-75: the caller's metadata updated with the  *)
(* agent's keys.  analysis_timestamp is datetime.now().isoformat().        *)
EnhancedMetadata(metadata, storage_invocation) ==
    [agent_analyzed |-> TRUE,
     agent_trigger |-> storage_invocation.trigger,
     storage_reason |->
         IF "reason" \in DOMAIN StorageContext
         THEN StorageContext["reason"] ELSE "Agent decision",
     autonomous_storage |-> TRUE,
     analysis_timestamp |-> "now"] @@ metadata

(* The Memory built at lines 83-88 from the content, the tags, the         *)
(* enhanced metadata and datetime.now()                                    *)
Memory(content, tags, metadata) ==
    [content |-> content, tags |-> tags, metadata |-> metadata, timestamp |-> "now"]

(* The hash the backend's store operation returns for a memory *)
HashOf(memory) == <<"hash", memory.content>>

(* The return of lines 62-66 *)
StorageNotNecessary(analysis) ==
    [stored |-> FALSE,
     reason |-> "Agent analysis determined storage not necessary",
     analysis |-> Len(analysis)]

(* The return of lines 94-100 *)
StoredResult(stored_hash, frame) ==
    [stored |-> TRUE,
     hash |-> stored_hash,
     reason |-> frame.enhanced_metadata.storage_reason,
     tags |-> frame.tags,
     agent_analysis |-> frame.trigger]

(* The exception of the store operation left to propagate. *)
StoreErrorPropagates(e) == Raised(e)

(* except Exception as e, lines 102-108: whatever the try raised *)
StoreError(e) ==
    Returned([stored |-> FALSE, error |-> e, reason |-> "Storage error encountered"])

NotInitialized ==
    "RuntimeError: Agent integration not initialized. Call initialize_agent_integration() first."

(* No check of the integration instance. *)
NotIntegrationNever(integration) == FALSE

(* "if not integration", lines 277 and 286 and 295 *)
NotIntegration(integration) == integration = None

(* What get_agent_status returns before initialization, line 296 *)
StatusNotInitialized ==
    [status |-> "not_initialized", error |-> "Agent integration not initialized"]

(* AgentMemoryIntegration.get_agent_status, lines 230-253: the keys of the *)
(* status map that do not depend on the orchestrator's counters            *)
AgentStatus ==
    [components |->
         [task_decomposer |-> "active", context_builder |-> "active",
          relevance_scorer |-> "active"],
     integration |-> [autonomous_mode |-> "enabled"]]

(* A storage call with what the backend answered: Returned or Raised *)
Answered(call, response) == [request |-> call, response |-> response]

(* One completed call of an entry point: its name and arguments, whether   *)
(* get_agent_integration() returned an instance, the storage calls it      *)
(* made, whether it called the context builder, and how it ended.          *)
Call(name, args, initialized, calls, assembled, outcome) ==
    [name |-> name, args |-> args, initialized |-> initialized,
     calls |-> calls, assembled |-> assembled, outcome |-> outcome]

(* Before any call has completed *)
NoCall == <<>>

(* The entry points are called one after the other *)
CanCall == ig_pc = "idle"

NoFrame == <<>>

(* initialize_agent_integration(storage_backend) *)
InitializeAgentIntegration ==
    /\ ig_integration' = "AgentMemoryIntegration"
    /\ UNCHANGED <<ig_pc, ig_frame, ig_last, notIg>>

(* The module-level autonomous_store_memory, lines 274-280, and the method *)
(* of lines 43-91 up to the await of storage.store_memory.                 *)
AutonomousStoreMemory(content, metadata) ==
    /\ CanCall
    /\ LET args == [content |-> content, metadata |-> metadata]
           analysis == AnalyzeContext(content)
           storage_invocations == StorageInvocations(analysis)
       IN  IF NotIntegration(ig_integration)
           THEN /\ ig_last' = Call("autonomous_store_memory", args, FALSE, <<>>,
                                    FALSE, Raised(NotInitialized))
                /\ UNCHANGED <<ig_pc, ig_frame>>
           ELSE IF storage_invocations = <<>>
           THEN /\ ig_last' = Call("autonomous_store_memory", args, TRUE, <<>>,
                                    FALSE,
                                    Returned(StorageNotNecessary(analysis)))
                /\ UNCHANGED <<ig_pc, ig_frame>>
           ELSE LET enhanced_metadata ==
                        EnhancedMetadata(metadata, storage_invocations[1])
                    tags == IF "tags" \in DOMAIN StorageContext
                            THEN Returned(StorageContext["tags"])
                            ELSE GenerateSmartTags(content, enhanced_metadata)
                    memory == Memory(content, tags.value, enhanced_metadata)
                IN  IF tags.raised
                    THEN /\ ig_last' = Call("autonomous_store_memory", args, TRUE,
                                            <<>>, FALSE, StoreError(tags.error))
                         /\ UNCHANGED <<ig_pc, ig_frame>>
                    ELSE /\ ig_frame' =
                                [args |-> args,
                                 trigger |-> storage_invocations[1].trigger,
                                 enhanced_metadata |-> enhanced_metadata,
                                 tags |-> tags.value,
                                 pending |-> [op |-> "store_memory",
                                              memory |-> memory]]
                         /\ ig_pc' = "store_memory"
                         /\ UNCHANGED ig_last
    /\ UNCHANGED <<ig_integration, notIg>>

(* storage.store_memory returns the hash: lines 90-100 *)
StoreMemoryReturns ==
    /\ ig_pc = "store_memory"
    /\ LET stored_hash == HashOf(ig_frame.pending.memory) IN
       ig_last' = Call("autonomous_store_memory", ig_frame.args, TRUE,
                       <<Answered(ig_frame.pending, Returned(stored_hash))>>,
                       FALSE, Returned(StoredResult(stored_hash, ig_frame)))
    /\ ig_pc' = "idle"
    /\ ig_frame' = NoFrame
    /\ UNCHANGED <<ig_integration, notIg>>

(* The errors the storage backend raises *)
StorageErrors == {"ConnectionError: backend down", "TimeoutError: "}

(* storage.store_memory raises: lines 102-108 *)
StoreMemoryRaises(e) ==
    /\ ig_pc = "store_memory"
    /\ ig_last' = Call("autonomous_store_memory", ig_frame.args, TRUE,
                       <<Answered(ig_frame.pending, Raised(e))>>,
                       FALSE, StoreError(e))
    /\ ig_pc' = "idle"
    /\ ig_frame' = NoFrame
    /\ UNCHANGED <<ig_integration, notIg>>

(* str(i) *)
RECURSIVE IntToStr(_)
IntToStr(n) ==
    IF n < 10 THEN <<DigitChars[n + 1]>>
    ELSE IntToStr(n \div 10) \o <<DigitChars[(n % 10) + 1]>>

(* f"query_{i}", line 125 *)
QueryId(i) == <<"q", "u", "e", "r", "y", "_">> \o IntToStr(i)

(* The storage call of lines 163-167; query is the text of the context     *)
(* query, which stands for it here.                                        *)
SearchCall(context_query) ==
    [op |-> "search_memories",
     query |-> context_query,
     limit |-> context_query.max_results,
     similarity_threshold |-> context_query.similarity_threshold]

(* memory_dict, lines 172-179: isoformat() is read back by the builder     *)
(* under its first format; a memory without similarity_score scores 0.5.   *)
MemoryDict(memory) ==
    RawResult(memory.hash,
              IF "similarity_score" \in DOMAIN memory
              THEN ScoreNumber(memory.similarity_score) ELSE ScoreNumber(500000),
              "%Y-%m-%dT%H:%M:%S", memory.days_ago)

(* _execute_memory_search: the results, [] when the search raises          *)
ExecuteMemorySearch(context_query, search) ==
    IF search.raises THEN <<>>
    ELSE [k \in 1..Len(search.memories) |-> MemoryDict(search.memories[k])]

(* The return of lines 152-157 *)
RetrieveError(e, query) ==
    [success |-> FALSE, error |-> e,
     context |-> <<"Error retrieving context for: ", query>>]

(* The loop of lines 124-129: memory_results, one (query_i, results) pair  *)
(* per context query.                                                      *)
ExecuteSearches(context_queries, search) ==
    [i \in 1..Len(context_queries) |->
        <<QueryId(i - 1), ExecuteMemorySearch(context_queries[i], search)>>]

(* The storage calls the loop makes, each with what the backend answered   *)
SearchCalls(context_queries, search) ==
    [i \in 1..Len(context_queries) |->
        Answered(SearchCall(context_queries[i]),
                 IF search.raises THEN Raised(search.error)
                 ELSE Returned(search.memories))]

(* The return of lines 143-150.  The formatted context and the statistics  *)
(* are strings derived from the assembled context and are left out.        *)
RetrieveSuccess(assembled_context) ==
    [success |-> TRUE,
     total_items |-> assembled_context.total_items,
     relevance_score |-> assembled_context.estimated_relevance]

(* Lines 121-150, once decompose_task has returned                         *)
RetrieveDecomposed(context_queries, search) ==
    [calls |-> SearchCalls(context_queries, search),
     assembled |-> TRUE,
     result |-> RetrieveSuccess(
                    AssembleContext(context_queries,
                                    ExecuteSearches(context_queries, search)))]

(* Lines 118-157 around the outcome of decompose_task                      *)
RetrieveAfter(decomposition, query, search) ==
    IF decomposition.raised
    THEN [calls |-> <<>>, assembled |-> FALSE,
          result |-> RetrieveError(decomposition.error, query)]
    ELSE RetrieveDecomposed(decomposition.value.context_queries, search)

(* AgentMemoryIntegration.autonomous_retrieve_context against a backend    *)
(* whose searches all behave as search does: the storage calls made,       *)
(* whether assemble_context was called, and the result.                    *)
RetrieveContext(query, search) ==
    RetrieveAfter(DecomposeTask(query), query, search)

(* What a completed call of the method leaves behind                       *)
Retrieved(args, retrieved) ==
    Call("autonomous_retrieve_context", args, TRUE,
         retrieved.calls, retrieved.assembled, Returned(retrieved.result))

(* The module-level autonomous_retrieve_context, lines 283-289, and the    *)
(* method of lines 110-157.  The method suspends only inside a search;     *)
(* the searches of one call are not interleaved with other calls here.     *)
AutonomousRetrieveContext(query, search) ==
    /\ CanCall
    /\ ig_last' =
           IF NotIntegration(ig_integration)
           THEN Call("autonomous_retrieve_context",
                     [query |-> query, search |-> search], FALSE, <<>>,
                     FALSE, Raised(NotInitialized))
           ELSE Retrieved([query |-> query, search |-> search],
                          RetrieveContext(query, search))
    /\ UNCHANGED <<ig_integration, ig_pc, ig_frame, notIg>>

(* The module-level get_agent_status, lines 292-298 *)
GetAgentStatus ==
    /\ CanCall
    /\ ig_last' =
           IF NotIntegration(ig_integration)
           THEN Call("get_agent_status", <<>>, FALSE, <<>>, FALSE,
                     Returned(StatusNotInitialized))
           ELSE Call("get_agent_status", <<>>, TRUE, <<>>, FALSE,
                     Returned(AgentStatus))
    /\ UNCHANGED <<ig_integration, ig_pc, ig_frame, notIg>>

(* The contents stored: scenario A, scenario B, an error report, a         *)
(* decision about a build                                                  *)
StoreContents ==
    {ScenarioA, ScenarioB, PhraseError,
     JoinPhrases(<<PhraseDecided, PhraseBuild>>)}

MetadataCategory == <<"n", "o", "t", "e", "s">>

MetadataCategories ==
    <<<<"d", "a", "t", "a", "b", "a", "s", "e">>, MetadataCategory>>

(* The metadata argument; None and {} both become {} at "metadata or {}".  *)
(* A category is a string or a list of strings.                            *)
StoreMetadata ==
    {EmptyDict, [project |-> ProjectApi],
     [project |-> ProjectApi, category |-> Text(MetadataCategory)],
     [category |-> OneOf(MetadataCategories)]}

RetrieveQueries == {ScenarioC, ScenarioB}

(* What a search of the backend does: raise, find nothing, find a memory *)
SearchBehaviours ==
    {[raises |-> TRUE, error |-> "ConnectionError: backend down", memories |-> <<>>],
     [raises |-> FALSE, error |-> "", memories |-> <<>>],
     [raises |-> FALSE, error |-> "",
      memories |-> <<[hash |-> "m1", similarity_score |-> 900000, days_ago |-> 3]>>]}

IgInit ==
    /\ ig_integration = None
    /\ ig_pc = "idle"
    /\ ig_frame = NoFrame
    /\ ig_last = NoCall

IgParked ==
    /\ ig_integration = None
    /\ ig_pc = "idle"
    /\ ig_frame = NoFrame
    /\ ig_last = NoCall
----------------------------------------------------------------------------
(* Specifications *)

(* Calls of execute_invocations interleaving at the await of line 263.     *)
Init == OrchInit /\ AnParked /\ TdParked /\ ScParked /\ CbParked /\ IgParked

Next == OrchNext

Spec == Init /\ [][Next]_vars

(* Calls of execute_invocations made one at a time: a call starts only     *)
(* when no other call is in flight.                                        *)
NoCallInFlight == \A q \in Callers : pc[q] \in {"idle", "done"}

SeqStartCall(p) == NoCallInFlight /\ StartCall(p)

SeqNext ==
    \E p \in Callers :
        \/ SeqStartCall(p)
        \/ CheckAndMark(p)
        \/ FinishExecution(p)
        \/ ReturnResults(p)

SeqSpec == Init /\ [][SeqNext]_vars

(* analyze_context on each of the analysed texts *)
AnalyzeInit == AnInit /\ OrchInit /\ TdParked /\ ScParked /\ CbParked /\ IgParked

AnalyzeNext == Analyze

AnalyzeSpec == AnalyzeInit /\ [][AnalyzeNext]_vars

(* decompose_task on each of the task texts *)
DecomposeInit == TdInit /\ OrchInit /\ AnParked /\ ScParked /\ CbParked /\ IgParked

DecomposeNext == Decompose

DecomposeSpec == DecomposeInit /\ [][DecomposeNext]_vars

(* decompose_task called twice on each of the task texts *)
DecomposeTwiceNext == Decompose \/ DecomposeAgain

DecomposeTwiceSpec == DecomposeInit /\ [][DecomposeTwiceNext]_vars


(* score_relevance on each candidate, context and weight profile *)
ScoreInit == ScInit /\ OrchInit /\ AnParked /\ TdParked /\ CbParked /\ IgParked

ScoreNext == Score

ScoreSpec == ScoreInit /\ [][ScoreNext]_vars

(* get_optimal_weights_for_context on each context *)
WeightsInit == WtInit /\ OrchInit /\ AnParked /\ TdParked /\ CbParked /\ IgParked

WeightsNext == GetOptimalWeights

WeightsSpec == WeightsInit /\ [][WeightsNext]_vars

(* assemble_context on each decomposition and result map *)
AssembleInit == CbInit /\ OrchInit /\ AnParked /\ TdParked /\ ScParked /\ IgParked

AssembleNext == Assemble

AssembleSpec == AssembleInit /\ [][AssembleNext]_vars

(* The entry points of the integration layer called one after the other    *)
(* against a storage backend whose calls return or raise                   *)
IntegrationInit ==
    IgInit /\ OrchInit /\ AnParked /\ TdParked /\ ScParked /\ CbParked

IntegrationNext ==
    \/ InitializeAgentIntegration
    \/ \E content \in StoreContents, metadata \in StoreMetadata :
           AutonomousStoreMemory(content, metadata)
    \/ StoreMemoryReturns
    \/ \E e \in StorageErrors : StoreMemoryRaises(e)
    \/ \E query \in RetrieveQueries, search \in SearchBehaviours :
           AutonomousRetrieveContext(query, search)
    \/ GetAgentStatus

IntegrationSpec == IntegrationInit /\ [][IntegrationNext]_vars
----------------------------------------------------------------------------
(* The claims *)

(* C1: decompose_task never raises for string input; for empty or          *)
(* whitespace-only text it returns a decomposition whose primary category  *)
(* is IMPLEMENTATION and whose technology set is empty.                    *)
DecomposeNeverRaises ==
    td_done =>
        /\ ~td_result.raised
        /\ Strip(td_task) = <<>> =>
              /\ td_result.value.primary_category = "implementation"
              /\ td_result.value.technologies_involved = {}

(* C2: two executions of the same agent type are never in progress at the  *)
(* same time.                                                              *)
NoDuplicateExecution ==
    \A p, q \in Callers :
        (p # q /\ pc[p] = "await" /\ pc[q] = "await")
            => CurInv(p).agent_type # CurInv(q).agent_type

(* C3: when the handling of an invocation that the call marked active is   *)
(* over, by success or by exception, its agent type is not in              *)
(* active_agents; and whenever no call is in flight the active set is      *)
(* empty, so a call that started alone with an empty set leaves it empty.  *)
GuaranteedCleanup ==
    /\ [](NoCallInFlight => active_agents = {})
    /\ [][\A p \in Callers :
            FinishExecution(p) => CurInv(p).agent_type \notin active_agents']_vars

(* C3 witness: a call has returned after one invocation that raised and    *)
(* one that succeeded, and the active set is empty.                        *)
CleanupWitness ==
    \E p \in Callers :
        /\ pc[p] = "done"
        /\ "raised" \in Range(handled[p])
        /\ "executed" \in Range(handled[p])
        /\ active_agents = {}

(* C4: execute_invocations does not end by an exception; in the returned   *)
(* list an invocation whose execution raised has a failed result with the  *)
(* exception text, and every invocation, those after it included, has been *)
(* executed and has its result, in input order.                            *)
BatchIsolation ==
    \A p \in Callers :
        /\ pc[p] \in {"idle", "loop", "await", "done"}
        /\ pc[p] = "done" =>
              /\ Len(results[p]) = Len(batch[p])
              /\ \A i \in 1..Len(batch[p]) :
                    /\ handled[p][i] \in {"executed", "raised"}
                    /\ results[p][i].agent_type = batch[p][i].agent_type
                    /\ BuildAgentPromptRaises(batch[p][i]) =>
                          /\ handled[p][i] = "raised"
                          /\ results[p][i].success = FALSE
                          /\ results[p][i].error_message = NoneHasNoGet
                    /\ ~BuildAgentPromptRaises(batch[p][i]) =>
                          /\ handled[p][i] = "executed"
                          /\ results[p][i].success = TRUE

(* C4 witness: a returned call whose first invocation raised and whose     *)
(* second invocation was executed with success.                            *)
BatchIsolationWitness ==
    \E p \in Callers :
        /\ pc[p] = "done"
        /\ Len(batch[p]) = 2
        /\ handled[p] = <<"raised", "executed">>
        /\ results[p][2].success = TRUE

CountType(seq, t) == Cardinality({i \in 1..Len(seq) : seq[i].agent_type = t})

OneIf(b) == IF b THEN 1 ELSE 0

(* C9: each of the five categories contributes exactly one invocation when *)
(* its patterns match and none otherwise, with its own agent type and      *)
(* trigger; the result has at most 5 invocations, of pairwise distinct     *)
(* agent types, in non-decreasing priority order.                          *)
AnalyzeCategories ==
    an_done =>
        LET r == an_invocations
            c == Lower(an_content)
        IN  /\ CountType(r, "memory-store") = OneIf(ContainsDecisionContent(c))
            /\ CountType(r, "debug-context") = OneIf(ContainsErrorContent(c))
            /\ CountType(r, "memory-context") = OneIf(ContainsTaskContent(c))
            /\ CountType(r, "test-context") = OneIf(ContainsTestContent(c))
            /\ CountType(r, "memory-recall") = OneIf(ContainsContextRequest(c))
            /\ \A i \in 1..Len(r) :
                  r[i] \in {Invocation("memory-store", "decision_made", 1),
                            Invocation("debug-context", "error_encountered", 1),
                            Invocation("memory-context", "task_started", 1),
                            Invocation("test-context", "testing_needed", 2),
                            Invocation("memory-recall", "context_needed", 2)}
            /\ Len(r) <= 5
            /\ \A i, j \in 1..Len(r) : i < j =>
                  /\ r[i].agent_type # r[j].agent_type
                  /\ r[i].priority <= r[j].priority

(* C9 witness: a text that all five categories match, analysed. *)
AnalyzeAllFiveWitness ==
    /\ an_done
    /\ Len(an_invocations) = 5
    /\ an_invocations[1].priority = 1
    /\ an_invocations[5].priority = 2

(* C10 as claimed: for the input of scenario A the result has exactly one  *)
(* memory-store invocation and also a memory-context invocation triggered  *)
(* by task_started.                                                        *)
ScenarioAStoreAndTask ==
    (an_done /\ an_content = ScenarioA) =>
        /\ CountType(an_invocations, "memory-store") = 1
        /\ \E i \in 1..Len(an_invocations) :
              an_invocations[i] = Invocation("memory-context", "task_started", 1)

(* C10 as amended: for the input of scenario A the result is exactly one   *)
(* invocation, the memory-store one triggered by decision_made; no task    *)
(* pattern occurs in the text, so there is no memory-context invocation.   *)
ScenarioAStoreOnly ==
    (an_done /\ an_content = ScenarioA) =>
        an_invocations = <<Invocation("memory-store", "decision_made", 1)>>

(* C10 witness: scenario A has been analysed. *)
ScenarioAWitness ==
    /\ an_done
    /\ an_content = ScenarioA
    /\ Len(an_invocations) = 1


(* The total of score_relevance before the clamp of line 255 *)
UnclampedTotal ==
    ApplyContextualAdjustments(
        WeightedTotal(DimensionScores(sc_candidate, sc_context),
                      IF sc_weights = NoWeights THEN DefaultWeights ELSE sc_weights),
        sc_candidate, sc_context).value.score

(* C5: whatever the candidate, the context, the weight profile and the     *)
(* contextual adjustments, the total_score that score_relevance returns    *)
(* lies in [0,1].                                                          *)
TotalScoreInUnitInterval ==
    (sc_done /\ ~sc_result.raised) =>
        /\ sc_result.value.total_score >= 0
        /\ sc_result.value.total_score <= 1000000

(* C5 witness: under a weight profile that sums to more than 1, with the   *)
(* urgency booster applied, the total before the clamp is above 1 and the  *)
(* returned total_score is 1.                                              *)
TotalScoreClampedWitness ==
    /\ sc_done
    /\ ~sc_result.raised
    /\ sc_weights = HeavyWeights
    /\ "Recent memory for urgent task" \in Range(sc_result.value.boosters)
    /\ UnclampedTotal > 1000000
    /\ sc_result.value.total_score = 1000000

(* C6: each of the eight dimension scores that score_relevance returns     *)
(* lies in [0,1].                                                          *)
DimensionScoresInUnitInterval ==
    (sc_done /\ ~sc_result.raised) =>
        \A k \in 1..Len(ScoreDimensions) :
            /\ sc_result.value.dimension_scores[ScoreDimensions[k]] >= 0
            /\ sc_result.value.dimension_scores[ScoreDimensions[k]] <= 1000000

(* C7: the sections of the AssembledContext are in non-decreasing order of *)
(* priority value: every CRITICAL section before every HIGH, MEDIUM and    *)
(* LOW one.                                                                *)
SectionsInPriorityOrder ==
    cb_done =>
        \A i, j \in 1..Len(cb_context.sections) :
            i < j => cb_context.sections[i].priority <= cb_context.sections[j].priority

(* C7 witness: an assembled context whose typed sections were created      *)
(* with a HIGH section ahead of a CRITICAL one, with a LOW section too.    *)
SectionsReorderedWitness ==
    /\ cb_done
    /\ LET created == CreateContextSections(
                          GroupItemsBySection(ParseMemoryResults(cb_results, cb_queries)))
       IN  \E i, j \in 1..Len(created) :
               i < j /\ created[i].priority > created[j].priority
    /\ \E k \in 1..Len(cb_context.sections) : cb_context.sections[k].priority = 4

ScenarioBEmpty ==
    (an_done /\ an_content = ScenarioB) =>
        /\ ~ContainsDecisionContent(Lower(ScenarioB))
        /\ ~ContainsErrorContent(Lower(ScenarioB))
        /\ ~ContainsTaskContent(Lower(ScenarioB))
        /\ ~ContainsTestContent(Lower(ScenarioB))
        /\ ~ContainsContextRequest(Lower(ScenarioB))
        /\ an_invocations = <<>>

(* C11 witness: scenario B has been analysed. *)
ScenarioBWitness ==
    /\ an_done
    /\ an_content = ScenarioB
    /\ Len(an_invocations) = 0

(* C12: decompose_task on the input of scenario C returns a decomposition  *)
(* with at least 2 components, the second one categorized TESTING.         *)
ScenarioCSecondIsTesting ==
    (td_done /\ td_task = ScenarioC) =>
        /\ ~td_result.raised
        /\ Len(td_result.value.components) >= 2
        /\ td_result.value.components[2].category = "testing"

(* The candidate and query of scenario D: base similarity 0.9, tags        *)
(* identical to the query tags, a timestamp two days old, default weights. *)
ScenarioD ==
    /\ sc_done
    /\ sc_weights = NoWeights
    /\ sc_candidate.base_similarity_score = 900000
    /\ sc_candidate.timestamp = DaysAgo(2)
    /\ sc_candidate.tags # <<>>
    /\ sc_candidate.tags = sc_context.query_tags

(* The context fields of scenario D at ScoringContext's defaults *)
ScenarioDDefaults ==
    /\ sc_context.target_technologies = {}
    /\ sc_context.content_type_preference = None
    /\ sc_context.temporal_preference = None
    /\ sc_context.metadata_requirements = EmptyDict
    /\ sc_context.contextual_factors = EmptyDict

ScenarioDBoosters ==
    /\ "High semantic similarity" \in Range(sc_result.value.boosters)
    /\ "Strong tag alignment" \in Range(sc_result.value.boosters)

(* C13 as stated: in scenario D the total exceeds 0.7 and both boosters    *)
(* are present for every choice of the open context fields.                *)
ScenarioDAnyContext ==
    ScenarioD =>
        /\ ~sc_result.raised
        /\ sc_result.value.total_score > 700000
        /\ ScenarioDBoosters

(* C13: in scenario D both boosters are present for every choice of the    *)
(* open context fields, and the total exceeds 0.7 when those fields are    *)
(* left at their defaults.                                                 *)
ScenarioDDefaultContext ==
    ScenarioD =>
        /\ ~sc_result.raised
        /\ ScenarioDBoosters
        /\ ScenarioDDefaults => sc_result.value.total_score > 700000

(* C13 witness: scenario D scored in the default context, at 0.785. *)
ScenarioDWitness ==
    /\ ScenarioD
    /\ ScenarioDDefaults
    /\ ~sc_result.raised
    /\ sc_result.value.total_score = 785000

(* The last call completed is a call of the entry point name made after    *)
(* initialization.                                                         *)
LastCallIs(name) ==
    /\ ig_last # NoCall
    /\ ig_last.name = name
    /\ ig_last.initialized

(* The storage calls of the last call that the backend answered by raising *)
RaisedCalls == SelectSeq(ig_last.calls, LAMBDA c : c.response.raised)

(* C14: when the store operation of the backend raises during              *)
(* autonomous_store_memory, the call does not raise: it returns a result   *)
(* with stored false and the text of the error, and no hash.               *)
StoreFailureReported ==
    (LastCallIs("autonomous_store_memory") /\ RaisedCalls # <<>>) =>
        /\ ~ig_last.outcome.raised
        /\ ig_last.outcome.value.stored = FALSE
        /\ ig_last.outcome.value.error = RaisedCalls[1].response.error
        /\ "hash" \notin DOMAIN ig_last.outcome.value

(* C14 witness: a store call whose storage call raised has completed. *)
StoreFailureWitness ==
    /\ LastCallIs("autonomous_store_memory")
    /\ RaisedCalls # <<>>
    /\ RaisedCalls[1].request.op = "store_memory"
    /\ ig_last.args.content = ScenarioA
    /\ ~ig_last.outcome.raised

RaisedNotInitialized(call) ==
    call.outcome.raised /\ call.outcome.error = NotInitialized

(* What a convenience function does before initialization: the store and   *)
(* retrieve functions raise, get_agent_status returns its status map.      *)
UninitializedOutcome(call) ==
    IF call.name = "get_agent_status"
    THEN ~call.outcome.raised /\ call.outcome.value = StatusNotInitialized
    ELSE RaisedNotInitialized(call)

(* C16 as stated: while initialize_agent_integration has not been called   *)
(* every convenience entry point raises the explicit error and no storage  *)
(* call is made; once it has been called the error is not raised again.    *)
UninitializedAlwaysRaises ==
    /\ []((ig_integration = None /\ ig_last # NoCall) =>
              (RaisedNotInitialized(ig_last) /\ ig_last.calls = <<>> /\ ig_pc = "idle"))
    /\ [][ig_integration # None =>
              /\ ig_integration' # None
              /\ ig_last' # ig_last => ~RaisedNotInitialized(ig_last')]_vars

(* C16: while initialize_agent_integration has not been called the store   *)
(* and retrieve entry points raise the explicit error, get_agent_status    *)
(* returns a not_initialized status map, and no storage call is made; once *)
(* it has been called the error is not raised again.                       *)
UninitializedRaisesOrReports ==
    /\ []((ig_integration = None /\ ig_last # NoCall) =>
              (UninitializedOutcome(ig_last) /\ ig_last.calls = <<>> /\ ig_pc = "idle"))
    /\ [][ig_integration # None =>
              /\ ig_integration' # None
              /\ ig_last' # ig_last => ~RaisedNotInitialized(ig_last')]_vars

(* C16 witness: autonomous_store_memory has raised before initialization. *)
UninitializedWitness ==
    /\ ig_integration = None
    /\ ig_last # NoCall
    /\ ig_last.name = "autonomous_store_memory"
    /\ ig_last.args.content = ScenarioA
    /\ RaisedNotInitialized(ig_last)

(* analyze_context yields a memory-store invocation for the content *)
StorageTriggered(content) ==
    \E i \in 1..Len(AnalyzeContext(content)) :
        AnalyzeContext(content)[i].agent_type = "memory-store"

(* C17: a call of autonomous_store_memory makes exactly one storage call,  *)
(* a store of the content with the generated tags, when analyze_context    *)
(* yields a memory-store invocation; otherwise it makes none and returns   *)
(* stored false with a reason.                                             *)
StoreExactlyWhenTriggered ==
    /\ ig_pc = "store_memory" =>
           /\ StorageTriggered(ig_frame.args.content)
           /\ ig_frame.pending.memory.tags = ig_frame.tags
    /\ LastCallIs("autonomous_store_memory") =>
           IF StorageTriggered(ig_last.args.content)
           THEN /\ Len(ig_last.calls) = 1
                /\ ig_last.calls[1].request.op = "store_memory"
                /\ ig_last.calls[1].request.memory.content = ig_last.args.content
                /\ Returned(ig_last.calls[1].request.memory.tags) =
                       GenerateSmartTags(ig_last.args.content,
                                         ig_last.calls[1].request.memory.metadata)
                /\ {TagAgentStored, TagAutonomous}
                       \subseteq ig_last.calls[1].request.memory.tags
           ELSE /\ ig_last.calls = <<>>
                /\ ~ig_last.outcome.raised
                /\ ig_last.outcome.value.stored = FALSE
                /\ "reason" \in DOMAIN ig_last.outcome.value

(* C18: a call of autonomous_retrieve_context makes one storage search per *)
(* context query of the decomposition of its query, in the order of the    *)
(* query list and with that query's max_results and similarity_threshold,  *)
(* and then calls the context builder.                                     *)
SearchPerContextQuery ==
    LastCallIs("autonomous_retrieve_context") =>
        LET context_queries ==
                GenerateContextQueries(CategorizeTask(ig_last.args.query))
        IN  /\ Len(ig_last.calls) = Len(context_queries)
            /\ \A i \in 1..Len(ig_last.calls) :
                   ig_last.calls[i].request = SearchCall(context_queries[i])
            /\ ig_last.assembled

(* C19: two calls of decompose_task with the same text on the same         *)
(* decomposer both return a decomposition, with the same primary           *)
(* category, the same technology set and the same context-query list.      *)
DecomposeTwiceSame ==
    td_again_done =>
        /\ ~td_result.raised
        /\ ~td_again.raised
        /\ td_again.value.primary_category = td_result.value.primary_category
        /\ td_again.value.technologies_involved =
               td_result.value.technologies_involved
        /\ td_again.value.context_queries = td_result.value.context_queries

(* The tags of a list, lower-cased, as a set *)
TagSet(tags) == {Lower(t) : t \in Range(tags)}

(* C20: the tag overlap of a scored candidate is                           *)
(* 0.7*|Q n C|/|Q u C| + 0.3*|Q n C|/|C| for the lower-cased query tag set *)
(* Q and candidate tag set C: 0 when either set is empty or the two are    *)
(* disjoint, 1 when they are identical and non-empty.                      *)
TagOverlapFormula ==
    (sc_done /\ ~sc_result.raised) =>
        LET Q == TagSet(sc_context.query_tags)
            C == TagSet(sc_candidate.tags)
            overlap == sc_result.value.dimension_scores.tag_overlap
        IN  /\ (Q = {} \/ C = {} \/ Q \cap C = {}) => overlap = 0
            /\ (Q = C /\ Q # {}) => overlap = 1000000
            /\ (Q # {} /\ C # {}) =>
                   overlap = (700000 * Cardinality(Q \cap C)) \div Cardinality(Q \cup C)
                             + (300000 * Cardinality(Q \cap C)) \div Cardinality(C)

(* C20 witness: tag lists that differ only in case overlap at 1. *)
TagOverlapWitness ==
    /\ sc_done
    /\ ~sc_result.raised
    /\ sc_candidate.tags # sc_context.query_tags
    /\ TagSet(sc_candidate.tags) = TagSet(sc_context.query_tags)
    /\ sc_result.value.dimension_scores.tag_overlap = 1000000

(* The scored candidate with another age *)
Aged(d) == [sc_candidate EXCEPT !.timestamp = DaysAgo(d)]

(* The ages of the scored candidates *)
Ages == {t.days : t \in {u \in Timestamps : ~u.is_none}}

(* The total score of lines 230-255 for the scored candidate at age d; the *)
(* call raises nothing when the candidate has a timestamp.                 *)
TotalAtAge(d) ==
    Clamp(ApplyContextualAdjustments(
              WeightedTotal(DimensionScores(Aged(d), sc_context),
                            IF sc_weights = NoWeights THEN DefaultWeights
                            ELSE sc_weights),
              Aged(d), sc_context).value.score)

DefaultTemporalMode == sc_context.temporal_preference \in {None, "any"}

(* C21: under the default temporal mode the temporal score of a scored     *)
(* candidate is at least that of the same candidate at any greater age,    *)
(* and so is its total score; yesterday against two years ago included.    *)
TemporalMonotone ==
    (sc_done /\ DefaultTemporalMode /\ ~sc_candidate.timestamp.is_none) =>
        \A d \in {a \in Ages : a > sc_candidate.timestamp.days} :
            /\ ~sc_result.raised
            /\ sc_result.value.dimension_scores.temporal_relevance
                   >= CalculateTemporalRelevance(Aged(d), sc_context)
            /\ sc_result.value.total_score >= TotalAtAge(d)

(* C21 witness: a candidate timestamped yesterday scores strictly higher   *)
(* than it would timestamped two years ago.                                *)
TemporalMonotoneWitness ==
    /\ sc_done
    /\ DefaultTemporalMode
    /\ sc_candidate.timestamp = DaysAgo(1)
    /\ ~sc_result.raised
    /\ sc_result.value.total_score > TotalAtAge(730)

(* C22: with calls made one at a time, whenever no call is in flight the   *)
(* history is the returned results of the calls made so far, successful    *)
(* and failed alike, call after call and in the order of each call.        *)
HistoryRecordsResults ==
    NoCallInFlight =>
        \E p, q \in Callers :
            /\ p # q
            /\ agent_history = results[p] \o results[q]

(* The next step of call p skips its invocation: the agent type is marked  *)
Skips(p) ==
    /\ pc[p] = "loop"
    /\ idx[p] <= Len(batch[p])
    /\ CurInv(p).agent_type \in active_agents

(* C23: a step that skips an invocation adds no result, appends nothing to *)
(* the history and leaves active_agents as it was.                         *)
SkipHasNoEffect ==
    [][\A p \in Callers :
          (Skips(p) /\ CheckAndMark(p)) =>
              /\ results' = results
              /\ agent_history' = agent_history
              /\ active_agents' = active_agents]_vars

(* The fragments after the first that the split at "and" leaves, with      *)
(* more than 10 characters once trimmed                                    *)
LongFragments(task) ==
    LET parts == SplitOnAnd(task)
    IN  {i \in 2..Len(parts) : Len(Strip(parts[i])) > 10}

(* C24: a decomposition holds the main component, covering the full text,  *)
(* and one secondary component for each fragment of more than 10 trimmed   *)
(* characters after a split at the word "and", and no other component.     *)
ComponentPerFragment ==
    td_done =>
        /\ ~td_result.raised
        /\ td_result.value.components[1].component = td_task
        /\ Len(td_result.value.components)
               = 1 + Cardinality(LongFragments(td_task))

(* The caps the claim lists, by section type *)
ClaimedCap(section_type) ==
    CASE section_type \in {"similar_implementations", "error_solutions"} -> 8
      [] section_type \in {"best_practices", "technical_patterns"} -> 6
      [] section_type \in {"common_pitfalls", "testing_strategies",
                           "architectural_decisions"} -> 5
      [] section_type \in {"configuration_examples",
                           "performance_considerations",
                           "security_practices"} -> 4

(* The items parsed from the results that were assembled *)
AssembledItems == ParseMemoryResults(cb_results, cb_queries)

(* The items of a section type's group *)
GroupOf(section_type) ==
    SelectSeq(AssembledItems, LAMBDA item : item.context_type = section_type)

TypedSections ==
    {k \in 1..Len(cb_context.sections) :
        cb_context.sections[k].section_type \in ContextTypes}

RecentSections ==
    {k \in 1..Len(cb_context.sections) :
        cb_context.sections[k].section_type = "recent_related_work"}

(* C25: a typed section holds at most its cap, in non-increasing relevance *)
(* order, and holds the highest-relevance items of its group; the recent   *)
(* section is there exactly when an item is less than 30 days old, and     *)
(* holds at most 5 items.                                                  *)
SectionsCappedAndSorted ==
    cb_done =>
        /\ \A section_type \in ContextTypes :
              MaxItemsForSection(section_type) = ClaimedCap(section_type)
        /\ \A k \in TypedSections :
              LET section == cb_context.sections[k]
                  group == GroupOf(section.section_type)
              IN  /\ Len(section.items) <= ClaimedCap(section.section_type)
                  /\ Len(section.items)
                         = Min(ClaimedCap(section.section_type), Len(group))
                  /\ \A i \in 1..(Len(section.items) - 1) :
                        section.items[i].relevance_score
                            >= section.items[i + 1].relevance_score
                  /\ Range(section.items) \subseteq Range(group)
                  /\ \A left \in Range(group) \ Range(section.items) :
                        \A item \in Range(section.items) :
                            item.relevance_score >= left.relevance_score
        /\ Cardinality(RecentSections) <= 1
        /\ (RecentSections # {}) <=>
               (\E item \in Range(AssembledItems) : item.days_ago < 30)
        /\ \A k \in RecentSections : Len(cb_context.sections[k].items) <= 5

(* C25 witness: a typed section cut at its cap and a recent section. *)
SectionCutWitness ==
    /\ cb_done
    /\ \E k \in TypedSections :
          Len(cb_context.sections[k].items)
              < Len(GroupOf(cb_context.sections[k].section_type))
    /\ RecentSections # {}

(* C26: the weights derived for a context whose temporal preference is     *)
(* "recent" have a temporal weight above the default 0.15, and those       *)
(* derived for a context with the error-context factor have semantic and   *)
(* content-type weights above the defaults 0.30 and 0.10, whatever else    *)
(* the context sets.                                                       *)
BoostsWhateverElse ==
    sc_done =>
        /\ sc_context.temporal_preference = "recent" =>
              sc_result.value.temporal_relevance > 15
        /\ "error_context" \in DOMAIN sc_context.contextual_factors =>
              /\ sc_result.value.semantic_similarity > 30
              /\ sc_result.value.content_type_match > 10

(* C27: scoring a candidate with no timestamp returns a score whose        *)
(* temporal dimension is 0.5, in every context.                            *)
MissingTimestampNeutral ==
    (sc_done /\ sc_candidate.timestamp.is_none) =>
        /\ ~sc_result.raised
        /\ sc_result.value.dimension_scores.temporal_relevance = 500000

(* C28: with calls made one at a time from an empty active set no          *)
(* invocation is skipped, and a call that has returned holds one result    *)
(* per invocation of its batch, in the order of the batch.                 *)
SequentialNeverSkips ==
    \A p \in Callers :
        /\ "skipped" \notin Range(handled[p])
        /\ Len(results[p]) = Len(handled[p])
        /\ pc[p] = "done" =>
              /\ Len(results[p]) = Len(batch[p])
              /\ \A i \in 1..Len(batch[p]) :
                    results[p][i].agent_type = batch[p][i].agent_type

(* C28 witness: a call has returned two results for a batch that names     *)
(* the same agent type twice.                                              *)
SameTypeTwiceWitness ==
    \E p \in Callers :
        /\ pc[p] = "done"
        /\ Len(batch[p]) = 2
        /\ batch[p][1].agent_type = batch[p][2].agent_type
        /\ Len(results[p]) = 2
        /\ results[p][1].success
        /\ results[p][2].success

(* The number of context queries the claim gives for a primary category    *)
ClaimedQueryCount(category) ==
    CASE category \in {"implementation", "architecture"} -> 5
      [] category \in {"debugging", "testing", "configuration", "security"} -> 4
      [] category \in {"research", "refactoring"} -> 0

(* C29: a decomposition holds 5 context queries when its primary category  *)
(* is implementation or architecture, 4 when it is debugging, testing,     *)
(* configuration or security, and none when it is research or refactoring; *)
(* the primary category is never documentation or deployment.              *)
QueryCountByCategory ==
    td_done =>
        /\ ~td_result.raised
        /\ td_result.value.primary_category \notin {"documentation", "deployment"}
        /\ Len(td_result.value.context_queries)
               = ClaimedQueryCount(td_result.value.primary_category)

OverviewSections ==
    {k \in 1..Len(cb_context.sections) :
        cb_context.sections[k].section_type = "overview"}

(* C30: an assembled context has exactly one overview section, which is    *)
(* the first section and holds the one generated item, of relevance 1.0;   *)
(* total_items counts the parsed items and not that item.                  *)
OneOverviewFirst ==
    cb_done =>
        /\ OverviewSections = {1}
        /\ Len(cb_context.sections[1].items) = 1
        /\ cb_context.sections[1].items[1].source_hash = "overview_generated"
        /\ cb_context.sections[1].items[1].relevance_score = 1000000
        /\ cb_context.total_items = Len(AssembledItems)

(* C30 witness: the overview stands ahead of the similar-implementations   *)
(* section, the other section of critical priority.                        *)
OverviewAheadWitness ==
    /\ cb_done
    /\ Len(cb_context.sections) >= 2
    /\ cb_context.sections[1].section_type = "overview"
    /\ cb_context.sections[2].section_type = "similar_implementations"
    /\ cb_context.total_items > 0
====
